---- MODULE Spec2Model ----
(***************************************************************************)
(* Farmlite: the request handlers of the backend                           *)
(* (backend/controllers/soilController.js: analyzeAgriculture with the     *)
(* model fallback of callGeminiAI, getSoilData, createPolygon and          *)
(* getPolygonData), the comparison search of the comparison page           *)
(* (loadComparisonAreas) and the initialization of the analysis page.      *)
(*                                                                         *)
(* Numbers are fixed point: Kelvin and Celsius in hundredths of a degree,  *)
(* moisture in thousandths, NDVI in hundredths, coordinates in thousandths *)
(* of a degree, distances in metres, radii in kilometres.                  *)
(***************************************************************************)
EXTENDS Integers, Sequences, FiniteSets, TLC

VARIABLES
    env,          \* GEMINI_API_KEY and API_KEY are set
    pc,           \* position of analyzeAgriculture in its body
    soilData,     \* let soilData
    ndviHistory,  \* let ndviHistory
    widx,         \* index into timeRanges of the next window of the for loop
    ndviFetched,  \* let ndviFetched
    queryLog,     \* the vegetation-source queries made so far, in order
    lastOutcome,  \* how the last vegetation-source query ended
    soilQueried,  \* whether the soil source was queried
    cond,         \* temp0cm, temp10cm, moisture and the five NDVI statistics
    polyArea,     \* polygonInfo.area is truthy
    geminiCalls,  \* number of calls of callGeminiAI
    geminiResult, \* what callGeminiAI returned: "none" before the call
    geminiReplies,  \* the objects the collaborator can answer with
    geminiAnalysis, \* const geminiAnalysis
    response,     \* the HTTP responses sent (res.status(..).json / res.json)
    threw,        \* an exception reached the outer catch of the handler
    \* ---- the comparison page ----
    cpc,            \* position of loadComparisonAreas: idle, sampling, calls, done
    currentCenter,  \* currentAnalysis.center
    radiusKm,       \* the selected radius
    rng,            \* the draws Math.random can produce
    randomPoints,   \* const randomPoints
    attempts,       \* let attempts of the slot being filled
    atLimit,        \* whether each accepted point was the 50th candidate of its slot
    forced,         \* whether each accepted point was accepted while too close
    callpc,         \* position of each areaPromises callback
    callFail,       \* the step at which each callback failed, "none" otherwise
    results,        \* what each callback returned: a ComparisonArea or null
    settledOrder,   \* the callbacks in their order of completion
    isLoading, error, comparisonAreas, loadedCount   \* React state of the page

avars == <<env, pc, soilData, ndviHistory, widx, ndviFetched, queryLog, lastOutcome,
           soilQueried, cond, polyArea, geminiCalls, geminiResult, geminiReplies,
           geminiAnalysis, response, threw>>

cvars == <<cpc, currentCenter, radiusKm, rng, randomPoints, attempts, atLimit, forced,
           callpc, callFail, results, settledOrder,
           isLoading, error, comparisonAreas, loadedCount>>

\* the other request handlers of soilController.js
VARIABLES
    hreq,         \* the request: the handler it is routed to and req.body.coordinates
    hpc,          \* position of the handler in its body
    hsent,        \* the rings handed to the upstream service, in order
    hres          \* the HTTP responses the request has received, in order

hvars == <<hreq, hpc, hsent, hres>>

\* the model fallback of callGeminiAI
VARIABLES
    modelName,    \* let modelName: the model asked last
    available,    \* the models whose generateContent answers
    apiError,     \* the error the primary model throws when it does not answer
    gpc,          \* position of callGeminiAI: "primary", "alternatives", "done"
    tried,        \* the models asked so far, in order
    remaining,    \* the alternative models the for loop has still to visit
    success,      \* a model has answered
    returned      \* the value callGeminiAI returns: "none" until it returns

gvars == <<modelName, available, apiError, gpc, tried, remaining, success, returned>>

\* the analysis page
VARIABLES
    storage,            \* localStorage: shapeData, polyid, coordsHash
    mounted,            \* the page is mounted and its effect has run once
    strictDue,          \* StrictMode has still to run the effect a second time
    hasInitialized,     \* hasInitializedRef.current
    isCreatingPolygon,  \* the state isCreatingPolygon
    effectDep,          \* isCreatingPolygon as captured by the callback the effect last ran with
    effectRuns,         \* runs of the initialization effect
    created,            \* the coordinates of the polygon-creation requests issued, in order
    settledRequests,    \* how many of them have been answered
    reusedPolyid,       \* the stored polygon id the page took over, "none" if none
    redirected,         \* router.push('/map') was called
    pageError           \* the state apiError of the page

pvars == <<storage, mounted, strictDue, hasInitialized, isCreatingPolygon, effectDep,
           effectRuns, created, settledRequests, reusedPolyid, redirected, pageError>>

ovars == <<hvars, gvars, pvars>>

vars == <<avars, cvars, ovars>>

(***************************************************************************)
(* JavaScript values of a JSON field.  v is the numeric value of a number  *)
(* or of a numeric string, 0 otherwise.                                    *)
(***************************************************************************)
JS(t, v) == [t |-> t, v |-> v]
Undef   == JS("undefined", 0)
Null    == JS("null", 0)
NaNv    == JS("NaN", 0)          \* typeof 'number', NaN
BadStr  == JS("string", 0)       \* a string that parses to no number
ObjV    == JS("object", 0)       \* {}
Num(n)    == JS("number", n)
NumStr(n) == JS("numstr", n)     \* a string that parses to the number n

\* typeof x === 'number'
IsNumberType(x) == x.t \in {"number", "NaN"}

\* the global isNaN(x): Number(x) is NaN
IsNaN(x) == x.t \in {"undefined", "NaN", "string", "object"}


\* x < n and x > n for a number n: false when x is NaN
Lt(x, n) == x.t = "number" /\ x.v < n
Gt(x, n) == x.t = "number" /\ x.v > n

(***************************************************************************)
(* Soil payload: soilData.t0, soilData.t10, soilData.moisture.             *)
(* k = "null": no soil data; k = "string": a truthy value that is no object*)
(***************************************************************************)
Soil(t0, t10, m) == [k |-> "object", t0 |-> t0, t10 |-> t10, moisture |-> m]
SoilNone   == [k |-> "null", t0 |-> Undef, t10 |-> Undef, moisture |-> Undef]
SoilString == [k |-> "string", t0 |-> Undef, t10 |-> Undef, moisture |-> Undef]

KelvinOffset == 27315      \* 273.15 in hundredths of a degree

\* soilData.t0 !== undefined && soilData.t0 !== null && !isNaN(soilData.t0)
\*   ? soilData.t0 - 273.15 : null
ExtractTemp(x) ==
    IF x.t # "undefined" /\ x.t # "null" /\ ~IsNaN(x)
    THEN Num(x.v - KelvinOffset)
    ELSE Null

MoistureOne == 1000        \* 1 in thousandths

\* a plausible slip: the comparison with 1 includes 1
ExtractMoistureUpToOne(x) ==
    IF x.t = "undefined" \/ x.t = "null" THEN Null
    ELSE IF IsNumberType(x)
         THEN (IF x.t = "number" /\ x.v <= MoistureOne THEN Num(x.v * 100) ELSE x)
    ELSE IF x.t = "numstr"
         THEN (IF x.v <= MoistureOne THEN Num(x.v * 100) ELSE Num(x.v))
    ELSE IF x.t = "string" THEN NaNv
    ELSE Null

\* typeof number: moisture < 1 ? moisture * 100 : moisture
\* typeof string: parseFloat, then * 100 if < 1 and not NaN
ExtractMoisture(x) ==
    IF x.t = "undefined" \/ x.t = "null" THEN Null
    ELSE IF IsNumberType(x)
         THEN (IF Lt(x, MoistureOne) THEN Num(x.v * 100) ELSE x)
    ELSE IF x.t = "numstr"
         THEN (IF x.v < MoistureOne THEN Num(x.v * 100) ELSE Num(x.v))
    ELSE IF x.t = "string" THEN NaNv
    ELSE Null

(***************************************************************************)
(* NDVI payloads.  An entry is null or an object with an optional data     *)
(* object and optional top-level value and mean.                           *)
(***************************************************************************)
NoData == [k |-> "undefined", mean |-> Undef, median |-> Undef, min |-> Undef,
           max |-> Undef, std |-> Undef, value |-> Undef]
DataStats(mean, median, mn, mx, std) ==
    [k |-> "object", mean |-> mean, median |-> median, min |-> mn,
     max |-> mx, std |-> std, value |-> Undef]
DataValue(v) == [NoData EXCEPT !.k = "object", !.value = v]

Entry(data, value, mean) == [k |-> "object", data |-> data, value |-> value, mean |-> mean]
EntNull == [k |-> "null", data |-> NoData, value |-> Undef, mean |-> Undef]

\* ndviHistory: k = "null", or "array" (items), or "dataArray" (an object whose
\* data is the array items), or "object" (one entry object, items = <<it>>)
Payload(k, items) == [k |-> k, items |-> items]
NdviNone == Payload("null", <<>>)

\* the predicate of responseData.some(...) on one entry
EntryHasData(item) ==
    IF item.k # "object" THEN FALSE
    ELSE IF item.data.k = "object"
         THEN item.data.mean # Undef \/ item.data.value # Undef
    ELSE item.value # Undef \/ item.mean # Undef

\* let hasValidData of the window loop
HasValidData(p) ==
    CASE p.k = "array" ->
            Len(p.items) > 0 /\ \E i \in 1..Len(p.items) : EntryHasData(p.items[i])
      [] p.k = "dataArray" -> TRUE         \* keys present and responseData.data truthy
      [] p.k = "object" ->
            LET o == p.items[1] IN
            o.data.k = "object" \/ o.mean # Undef \/ o.value # Undef
      [] OTHER -> FALSE

(***************************************************************************)
(* Aggregation of a non-empty sequence of numbers (hundredths).            *)
(***************************************************************************)
RECURSIVE SeqSum(_)
SeqSum(q) == IF q = <<>> THEN 0 ELSE Head(q) + SeqSum(Tail(q))

SeqMin(q) == CHOOSE x \in {q[i] : i \in 1..Len(q)} : \A j \in 1..Len(q) : x <= q[j]
SeqMax(q) == CHOOSE x \in {q[i] : i \in 1..Len(q)} : \A j \in 1..Len(q) : x >= q[j]

NdviLo == -100             \* -1 in hundredths
NdviHi == 100              \*  1 in hundredths

\* [...q].sort((a, b) => a - b)
RECURSIVE SortAsc(_)
SortAsc(q) ==
    IF q = <<>> THEN <<>>
    ELSE LET i == CHOOSE i \in 1..Len(q) : \A j \in 1..Len(q) : q[i] <= q[j]
         IN <<q[i]>> \o SortAsc(SubSeq(q, 1, i - 1) \o SubSeq(q, i + 1, Len(q)))

\* q.reduce((a, b) => a + b, 0) / q.length
Mean(q) == SeqSum(q) \div Len(q)

Median(q) ==
    LET sorted == SortAsc(q)
        n == Len(sorted)
    IN IF n % 2 = 0 THEN (sorted[n \div 2] + sorted[n \div 2 + 1]) \div 2
       ELSE sorted[n \div 2 + 1]

SqrtRange == NdviHi - NdviLo   \* a deviation of values in [-1, 1] is at most 2
ISqrt(n) == CHOOSE r \in 0..SqrtRange : r * r <= n /\ n < (r + 1) * (r + 1)

\* Math.sqrt(q.reduce((acc, val) => acc + Math.pow(val - mean, 2), 0) / q.length)
Std(q, mean) ==
    ISqrt(SeqSum([i \in 1..Len(q) |-> (q[i] - mean) * (q[i] - mean)]) \div Len(q))

\* typeof val === 'number' && !isNaN(val)
IsNum(x) == x.t = "number"

\* val !== undefined && typeof val === 'number' && !isNaN(val) && val >= -1 && val <= 1
InRange(x) == IsNum(x) /\ x.v >= NdviLo /\ x.v <= NdviHi

\* the values of a sequence of JS values that pass the filter, in order
RECURSIVE ValidValues(_)
ValidValues(q) ==
    IF q = <<>> THEN <<>>
    ELSE (IF InRange(Head(q)) THEN <<Head(q).v>> ELSE <<>>) \o ValidValues(Tail(q))

NoStats == [mean |-> Null, median |-> Null, min |-> Null, max |-> Null, std |-> Null,
            threw |-> FALSE]
Threw == [NoStats EXCEPT !.threw = TRUE]

\* let ndviArray
NdviArray(p) == IF p.k = "null" THEN <<>> ELSE p.items

\* mean, median, min, max, std of Format 2 and Format 3 (ndviValues)
ValueStats(vals) ==
    IF Len(vals) = 0 THEN NoStats
    ELSE [mean |-> Num(Mean(vals)), median |-> Num(Median(vals)),
          min |-> Num(SeqMin(vals)), max |-> Num(SeqMax(vals)),
          std |-> Num(IF Len(vals) > 1 THEN Std(vals, Mean(vals)) ELSE 0),
          threw |-> FALSE]

Keep(x) == IF IsNum(x) THEN x ELSE Null

\* Format 1: the latest entry's statistics, then the aggregate of all means
Format1(arr) ==
    LET latest == arr[Len(arr)]
        base == IF latest.k = "object" /\ latest.data.k = "object"
                THEN [mean |-> Keep(latest.data.mean), median |-> Keep(latest.data.median),
                      min |-> Keep(latest.data.min), max |-> Keep(latest.data.max),
                      std |-> Keep(latest.data.std), threw |-> FALSE]
                ELSE NoStats
    IN IF Len(arr) > 1 /\ base.mean # Null
       THEN IF \E i \in 1..Len(arr) : arr[i].k = "null"
            THEN Threw                       \* entry.data of a null entry
            ELSE LET allMeans == ValidValues([i \in 1..Len(arr) |-> arr[i].data.mean])
                 IN IF Len(allMeans) > 1
                    THEN LET avg == Mean(allMeans)
                             lo == SeqMin(allMeans)
                             hi == SeqMax(allMeans)
                         IN [mean |-> Num(avg),
                             median |-> Num(Median(allMeans)),
                             min |-> Num(IF base.min # Null /\ base.min.v < lo
                                         THEN base.min.v ELSE lo),
                             max |-> Num(IF base.max # Null /\ base.max.v > hi
                                         THEN base.max.v ELSE hi),
                             std |-> Num(Std(allMeans, avg)),
                             threw |-> FALSE]
                    ELSE base
       ELSE base

\* Format 2: item.data.value of every entry
Format2(arr) ==
    IF \E i \in 1..Len(arr) : arr[i].k = "null"
    THEN Threw                               \* item.data of a null entry
    ELSE ValueStats(ValidValues([i \in 1..Len(arr) |->
            IF arr[i].data.k = "object" THEN arr[i].data.value ELSE Undef]))

\* Format 3: item.value of every entry
Format3(arr) ==
    IF \E i \in 1..Len(arr) : arr[i].k = "null"
    THEN Threw                               \* item.value of a null entry
    ELSE ValueStats(ValidValues([i \in 1..Len(arr) |-> arr[i].value]))

\* the NDVI processing of analyzeAgriculture: the five statistics, or threw
NdviStats(p) ==
    LET arr == NdviArray(p) IN
    IF Len(arr) = 0 THEN NoStats
    ELSE LET first == arr[1] IN
         IF first.k # "object" THEN NoStats
         ELSE LET s12 == IF first.data.k = "object"
                         THEN IF IsNum(first.data.mean) THEN Format1(arr)
                              ELSE IF IsNum(first.data.value) THEN Format2(arr)
                              ELSE NoStats
                         ELSE NoStats
              IN IF s12.threw THEN s12
                 ELSE IF s12.mean = Null /\ IsNum(first.value)
                      THEN LET s3 == Format3(arr) IN
                           IF s3.threw THEN s3
                           ELSE IF s3.mean # Null THEN s3 ELSE s12
                 ELSE s12

(***************************************************************************)
(* Current_Conditions of the response.                                     *)
(***************************************************************************)
NA == [na |-> TRUE, v |-> 0]
Shown(n) == [na |-> FALSE, v |-> n]

\* x !== null && !isNaN(x) ? x.toFixed(..) : "N/A"
Display(x) == IF x # Null /\ ~IsNaN(x) THEN Shown(x.v) ELSE NA

\* toFixed(1) of a moisture in thousandths: tenths, rounded half up
MoistureDisplay(x) ==
    IF x # Null /\ ~IsNaN(x) THEN Shown((x.v + 50) \div 100) ELSE NA

Cold == 500                \* 5 degrees C in hundredths
Warm == 2500               \* 25 degrees C in hundredths
TempStatus(t) ==
    IF t # Null THEN (IF Lt(t, Cold) THEN "cold" ELSE IF Gt(t, Warm) THEN "warm" ELSE "optimal")
    ELSE "unknown"

MoistLow == 20000          \* 20 % in thousandths
MoistHigh == 70000         \* 70 %
MoistModerate == 30000     \* 30 %
\* a plausible slip: the test for 'moderate' comes first
MoistureStatusModerateFirst(m) ==
    IF m # Null
    THEN (IF Lt(m, MoistModerate) THEN "moderate" ELSE IF Lt(m, MoistLow) THEN "low"
          ELSE IF Gt(m, MoistHigh) THEN "excessive" ELSE "sufficient")
    ELSE "unknown"

MoistureStatus(m) ==
    IF m # Null
    THEN (IF Lt(m, MoistLow) THEN "low" ELSE IF Gt(m, MoistHigh) THEN "excessive"
          ELSE IF Lt(m, MoistModerate) THEN "moderate" ELSE "sufficient")
    ELSE "unknown"

\* a plausible slip: no null check, and null < 0.1 holds in JavaScript
VegStatusNoNullCheck(n) ==
    IF n = Null \/ Lt(n, 10) THEN "very_poor" ELSE IF Lt(n, 30) THEN "poor"
    ELSE IF Lt(n, 50) THEN "moderate" ELSE IF Lt(n, 70) THEN "good" ELSE "excellent"

VegStatus(n) ==
    IF n # Null
    THEN (IF Lt(n, 10) THEN "very_poor" ELSE IF Lt(n, 30) THEN "poor"
          ELSE IF Lt(n, 50) THEN "moderate" ELSE IF Lt(n, 70) THEN "good" ELSE "excellent")
    ELSE "unknown"

NoCond == [temp0cm |-> Null, temp10cm |-> Null, moisture |-> Null, ndvi |-> NoStats]

\* the extraction of temp0cm, temp10cm, moisture and the NDVI statistics
Extract(soil, ndvi) ==
    [temp0cm |-> ExtractTemp(soil.t0), temp10cm |-> ExtractTemp(soil.t10),
     moisture |-> ExtractMoisture(soil.moisture), ndvi |-> NdviStats(ndvi)]

\* analysisResult.Current_Conditions
CurrentConditions(c) ==
    [surface |-> Display(c.temp0cm), depth_10cm |-> Display(c.temp10cm),
     tempStatus |-> TempStatus(c.temp0cm),
     moisture |-> MoistureDisplay(c.moisture),
     moistureStatus |-> MoistureStatus(c.moisture),
     ndvi_mean |-> Display(c.ndvi.mean), ndvi_median |-> Display(c.ndvi.median),
     ndvi_min |-> Display(c.ndvi.min), ndvi_max |-> Display(c.ndvi.max),
     ndvi_std |-> Display(c.ndvi.std),
     vegStatus |-> VegStatus(c.ndvi.mean)]

NoCC == CurrentConditions(NoCond)

(***************************************************************************)
(* What callGeminiAI returns: the JSON object of the collaborator.  A      *)
(* field is undefined, null, a boolean, an object, a number (thousandths)  *)
(* or a string, held as the sequence of its characters.                    *)
(***************************************************************************)
GV(t, v, s) == [t |-> t, v |-> v, s |-> s]
GUndef == GV("undefined", 0, <<>>)
GNull == GV("null", 0, <<>>)
GBool == GV("boolean", 0, <<>>)
GObj == GV("object", 0, <<>>)
GNum(n) == GV("number", n, <<>>)
GStr(chars) == GV("string", 0, chars)

Digits == <<"0", "1", "2", "3", "4", "5", "6", "7", "8", "9">>
IsDigit(c) == \E d \in 1..10 : Digits[d] = c
DigitVal(c) == (CHOOSE d \in 1..10 : Digits[d] = c) - 1

\* the longest prefix of digits
RECURSIVE DigitPrefix(_)
DigitPrefix(q) ==
    IF q # <<>> /\ IsDigit(Head(q)) THEN <<Head(q)>> \o DigitPrefix(Tail(q)) ELSE <<>>

RECURSIVE IntVal(_)
IntVal(q) == IF q = <<>> THEN 0 ELSE IntVal(SubSeq(q, 1, Len(q) - 1)) * 10 + DigitVal(q[Len(q)])

\* the fraction digits in thousandths (digits after the third are dropped)
Frac3(q) ==
    (IF Len(q) >= 1 THEN DigitVal(q[1]) * 100 ELSE 0)
    + (IF Len(q) >= 2 THEN DigitVal(q[2]) * 10 ELSE 0)
    + (IF Len(q) >= 3 THEN DigitVal(q[3]) ELSE 0)

RECURSIVE TrimStart(_)
TrimStart(q) == IF q # <<>> /\ Head(q) = " " THEN TrimStart(Tail(q)) ELSE q

RECURSIVE TrimEnd(_)
TrimEnd(q) ==
    IF q # <<>> /\ q[Len(q)] = " " THEN TrimEnd(SubSeq(q, 1, Len(q) - 1)) ELSE q

\* String.prototype.trim
Trim(q) == TrimEnd(TrimStart(q))

\* q.replace(c, ''): the first occurrence of c is removed
RECURSIVE RemoveFirst(_, _)
RemoveFirst(q, c) ==
    IF q = <<>> THEN <<>>
    ELSE IF Head(q) = c THEN Tail(q)
    ELSE <<Head(q)>> \o RemoveFirst(Tail(q), c)

\* parseFloat of a string: leading white space, a sign, digits, a fraction;
\* the rest is ignored, and NaN when there is no digit
ParseFloat(q) ==
    LET t == TrimStart(q)
        signed == t # <<>> /\ Head(t) \in {"-", "+"}
        neg == t # <<>> /\ Head(t) = "-"
        u == IF signed THEN Tail(t) ELSE t
        ip == DigitPrefix(u)
        r == SubSeq(u, Len(ip) + 1, Len(u))
        fp == IF r # <<>> /\ Head(r) = "." THEN DigitPrefix(Tail(r)) ELSE <<>>
        mag == IntVal(ip) * 1000 + Frac3(fp)
    IN IF ip = <<>> /\ fp = <<>> THEN NaNv
       ELSE Num(IF neg THEN -mag ELSE mag)

\* parseFloat(x) of any value: String(x) is parsed, and the decimal form of a
\* number parses back to it, while "null", "true" and "[object Object]" do not
ParseFloatOf(x) ==
    IF x.t = "number" THEN Num(x.v)
    ELSE IF x.t = "string" THEN ParseFloat(x.s)
    ELSE NaNv

WeightTemp == 150          \* 0.15 in thousandths
WeightMoisture == 250      \* 0.25
WeightNdvi == 250          \* 0.25
WeightArea == 200          \* 0.20

\* a plausible slip: the polygon area weighs 0.25 as moisture and NDVI do
dataCompletenessAreaQuarter(c, area) ==
    (IF c.temp0cm # Null THEN WeightTemp ELSE 0)
    + (IF c.temp10cm # Null THEN WeightTemp ELSE 0)
    + (IF c.moisture # Null THEN WeightMoisture ELSE 0)
    + (IF c.ndvi.mean # Null THEN WeightNdvi ELSE 0)
    + (IF area THEN WeightMoisture ELSE 0)

\* let dataCompleteness
dataCompleteness(c, area) ==
    (IF c.temp0cm # Null THEN WeightTemp ELSE 0)
    + (IF c.temp10cm # Null THEN WeightTemp ELSE 0)
    + (IF c.moisture # Null THEN WeightMoisture ELSE 0)
    + (IF c.ndvi.mean # Null THEN WeightNdvi ELSE 0)
    + (IF area THEN WeightArea ELSE 0)

One == 1000                \* 1 in thousandths

\* let confidenceValue
confidenceValue(conf, completeness) ==
    IF conf.t = "undefined" THEN Num(completeness)
    ELSE IF conf.t = "string"
         THEN LET confNum == ParseFloat(Trim(RemoveFirst(conf.s, "%")))
              IN IF ~IsNaN(confNum)
                 THEN (IF confNum.v > One THEN Num(confNum.v \div 100) ELSE confNum)
                 ELSE Num(completeness)
    ELSE ParseFloatOf(conf)

\* a level field: undefined, null or a string
LV(t, s) == [t |-> t, s |-> s]
LUndef == LV("undefined", "")
LNull == LV("null", "")
Level(name) == LV("string", name)

Truthy(l) == l.t = "string" /\ l.s # ""

\* a plausible slip: Fertility_Level is consulted first
soilQualityLevelFertilityFirst(sql, fl) ==
    IF Truthy(fl) THEN fl.s ELSE IF Truthy(sql) THEN sql.s ELSE "Unknown"

\* geminiAnalysis.Soil_Quality_Level || geminiAnalysis.Fertility_Level || "Unknown"
soilQualityLevel(sql, fl) ==
    IF Truthy(sql) THEN sql.s ELSE IF Truthy(fl) THEN fl.s ELSE "Unknown"

ScoreHigh == 80000         \* 80 in thousandths
ScoreModerate == 60000     \* 60
ScoreLow == 30000          \* 30

\* soilQualityLevel === "High" ? 80 : soilQualityLevel === "Moderate" ? 60 : 30
LevelScore(level) ==
    IF level = "High" THEN ScoreHigh ELSE IF level = "Moderate" THEN ScoreModerate ELSE ScoreLow

\* analysisResult.Soil_Quality_Index
SoilQualityIndex(g) ==
    IF g.Soil_Quality_Index.t # "undefined" THEN ParseFloatOf(g.Soil_Quality_Index)
    ELSE Num(LevelScore(soilQualityLevel(g.Soil_Quality_Level, g.Fertility_Level)))

\* a list field: undefined, null, a string, an object or an array of items
RV(t, items) == [t |-> t, items |-> items]
RUndef == RV("undefined", <<>>)
RArray(items) == RV("array", items)

Sentinel == <<"No recommendations available">>

\* a plausible slip: the length of the array is not looked at
RecommendationsAnyArray(r) == IF r.t = "array" THEN r.items ELSE Sentinel

\* Array.isArray(geminiAnalysis.Recommendations) && geminiAnalysis.Recommendations.length > 0
\*   ? geminiAnalysis.Recommendations : ["No recommendations available"]
Recommendations(r) == IF r.t = "array" /\ Len(r.items) > 0 THEN r.items ELSE Sentinel

Reply(conf, sqi, sql, fl) ==
    [Confidence |-> conf, Soil_Quality_Index |-> sqi,
     Soil_Quality_Level |-> sql, Fertility_Level |-> fl, Recommendations |-> RUndef]
WithRecommendations(g, r) == [g EXCEPT !.Recommendations = r]
NoReply == Reply(GUndef, GUndef, LUndef, LUndef)

\* res.json(analysisResult)
Ok(c, area, g) ==
    [status |-> 200, cc |-> CurrentConditions(c),
     Confidence |-> confidenceValue(g.Confidence, dataCompleteness(c, area)),
     Soil_Quality_Index |-> SoilQualityIndex(g),
     Soil_Quality_Level |-> soilQualityLevel(g.Soil_Quality_Level, g.Fertility_Level),
     Recommendations |-> Recommendations(g.Recommendations)]
Err(status) ==
    [status |-> status, cc |-> NoCC, Confidence |-> Null, Soil_Quality_Index |-> Null,
     Soil_Quality_Level |-> "", Recommendations |-> <<>>]

(***************************************************************************)
(* The comparison page.  Coordinates are in thousandths of a degree, and a *)
(* NaN coordinate is marked by nan.  Distances are in metres.              *)
(***************************************************************************)
Point(lat, lng) == [lat |-> lat, lng |-> lng, nan |-> FALSE]
NaNPoint == [lat |-> 0, lng |-> 0, nan |-> TRUE]

Abs(x) == IF x < 0 THEN -x ELSE x
MinOf(a, b) == IF a < b THEN a ELSE b
MaxOf(a, b) == IF a > b THEN a ELSE b

\* Math.cos of a latitude, in thousandths (Bhaskara's rational approximation)
CosMilli(lat) ==
    LET x == 900 - MinOf(Abs(lat) \div 100, 900)     \* tenths of a degree from the pole
        y == x * (1800 - x)
    IN (400 * y) \div ((4050000 - y) \div 10)

RECURSIVE SqrtBetween(_, _, _)
SqrtBetween(n, lo, hi) ==
    IF lo >= hi THEN lo
    ELSE LET mid == (lo + hi + 1) \div 2
         IN IF mid * mid <= n THEN SqrtBetween(n, mid, hi) ELSE SqrtBetween(n, lo, mid - 1)

\* Math.sqrt, rounded down
Sqrt(n) == SqrtBetween(n, 0, 40000)

MetresPerMilliDegree == 111   \* 6371 km * pi / 180 / 1000, the arc of 0.001 degree

\* a plausible slip: the cosine of the first latitude is used for both points
calculateDistanceOneCosine(point1, point2) ==
    LET dLat == Abs(point2.lat - point1.lat)
        dLon == Abs(point2.lng - point1.lng)
        a == dLat * dLat
             + ((CosMilli(point1.lat) * dLon) \div 1000) * ((CosMilli(point1.lat) * dLon) \div 1000)
    IN MetresPerMilliDegree * Sqrt(a)

\* calculateDistance: the haversine formula, with sin and atan2 taken to first
\* order in the differences (the points lie within a few degrees of each other)
calculateDistance(point1, point2) ==
    LET dLat == Abs(point2.lat - point1.lat)
        dLon == Abs(point2.lng - point1.lng)
        a == dLat * dLat
             + ((CosMilli(point1.lat) * dLon) \div 1000) * ((CosMilli(point2.lat) * dLon) \div 1000)
    IN MetresPerMilliDegree * Sqrt(a)

KmPerDegree == 111
Huge == 1000000000         \* stands for a radius in degrees divided by a cosine of 0

\* generateRandomPoint(center, radiusKm) with angle and distanceRatio drawn as
\* d = [cosA, sinA, ratio], in thousandths
generateRandomPoint(center, radius, d) ==
    IF center.nan \/ center.lat < -90000 \/ center.lat > 90000
       \/ center.lng < -180000 \/ center.lng > 180000
    THEN center
    ELSE LET latRadiusDeg == (radius * 1000) \div KmPerDegree
             c == CosMilli(center.lat)
             lngRadiusDeg == IF c = 0 THEN Huge ELSE (radius * 1000000) \div (KmPerDegree * c)
             latOffset == (((d.ratio * latRadiusDeg) \div 1000) * d.cosA) \div 1000
             lngOffset == IF c = 0 THEN (IF d.ratio * d.sinA = 0 THEN 0
                                         ELSE IF d.sinA > 0 THEN Huge ELSE -Huge)
                          ELSE (((d.ratio * lngRadiusDeg) \div 1000) * d.sinA) \div 1000
             newLat == center.lat + latOffset
             newLng == center.lng + lngOffset
         IN IF newLat < -90000 \/ newLat > 90000 \/ newLng < -180000 \/ newLng > 180000
            THEN Point(MaxOf(-90000, MinOf(90000, newLat)),
                       MaxOf(-180000, MinOf(180000, newLng)))
            ELSE Point(newLat, newLng)

numLocations == 4
MaxAttempts == 50

\* Math.min(5, radiusKm * 0.1), in metres
minDistance(radius) == MinOf(5000, radius * 100)

\* a plausible slip: the candidate is compared with the last accepted point only
tooCloseToLast(points, point, radius) ==
    points # <<>> /\ calculateDistance(points[Len(points)], point) < minDistance(radius)

\* randomPoints.some(p => calculateDistance(p, point) < minDistance)
tooClose(points, point, radius) ==
    \E i \in 1..Len(points) : calculateDistance(points[i], point) < minDistance(radius)

\* a plausible slip: the loop has no attempt limit
LeavesLoopNoLimit(close, n) == ~close

\* the do-while loop ends after this candidate: if (!tooClose || attempts > 50) break,
\* while (attempts < 50)
LeavesLoop(close, n) == ~close \/ n > MaxAttempts \/ ~(n < MaxAttempts)

(***************************************************************************)
(* The state of one subsystem while the other one is observed.             *)
(***************************************************************************)
NoArea == [idx |-> 0, score |-> 0]      \* null
NoError == "null"
NoCalls == [i \in 1..4 |-> "idle"]

PageIdle ==
    /\ cpc = "idle"
    /\ currentCenter = NaNPoint
    /\ radiusKm = 100
    /\ rng = {}
    /\ randomPoints = <<>>
    /\ attempts = 0
    /\ atLimit = <<>>
    /\ forced = <<>>
    /\ callpc = NoCalls
    /\ callFail = [i \in 1..4 |-> "none"]
    /\ results = [i \in 1..4 |-> NoArea]
    /\ settledOrder = <<>>
    /\ isLoading = FALSE
    /\ error = NoError
    /\ comparisonAreas = <<>>
    /\ loadedCount = 0

(***************************************************************************)
(* Inputs.  They arrive as JSON, which carries no NaN.                     *)
(***************************************************************************)
MaxEntries == 3            \* longest NDVI array of the extraction inputs

T0Values == {Undef, Null, BadStr, ObjV, Num(27315), Num(30315), NumStr(27815)}
T10Values == {Undef, BadStr, Num(28315)}
MoistureValues == {Undef, Null, BadStr, ObjV, Num(189), Num(1000), Num(25000),
                   Num(45000), Num(80000), NumStr(189), NumStr(45000),
                   Num(20000), Num(30000), Num(70000), NumStr(1000)}

EntEmpty == Entry(NoData, Undef, Undef)
EntMean(m, lo, hi) == Entry(DataStats(m, m, lo, hi, Num(5)), Undef, Undef)
Entries ==
    { EntNull, EntEmpty,
      EntMean(Num(20), Num(10), Num(30)), EntMean(Num(40), Undef, Undef),
      EntMean(Num(150), Num(20), Num(150)), EntMean(Null, Null, Null),
      Entry(DataValue(Num(30)), Undef, Undef), Entry(DataValue(Num(-120)), Undef, Undef),
      Entry(NoData, Num(50), Undef), Entry(NoData, BadStr, Num(60)),
      \* entries of more than one shape
      Entry([DataStats(Num(20), Num(20), Undef, Undef, Undef) EXCEPT !.value = Num(60)],
            Undef, Undef),
      Entry(DataStats(Num(20), Num(20), Undef, Undef, Undef), Num(70), Undef),
      Entry(DataValue(Num(30)), Num(70), Undef),
      Entry(DataValue(Num(150)), Num(70), Undef) }

RECURSIVE SeqsUpTo(_, _)
SeqsUpTo(S, n) ==
    IF n = 0 THEN {<<>>}
    ELSE LET shorter == SeqsUpTo(S, n - 1)
         IN shorter \cup {Append(q, x) : q \in {r \in shorter : Len(r) = n - 1}, x \in S}

\* no request is being handled by the other handlers
NoRequest == [handler |-> "none", coordinates |-> [t |-> "undefined", pts |-> <<>>]]
HandlersIdle ==
    /\ hreq = NoRequest
    /\ hpc = "done"
    /\ hsent = <<>>
    /\ hres = <<>>

\* callGeminiAI is not running
NoApiError == [message |-> <<>>, status |-> 0, notFound |-> FALSE]
FallbackIdle ==
    /\ modelName = "gemini-2.5-flash"
    /\ available = {}
    /\ apiError = NoApiError
    /\ gpc = "done"
    /\ tried = <<>>
    /\ remaining = <<>>
    /\ success = FALSE
    /\ returned = "none"

\* the analysis page is not mounted
NoShape == [k |-> "none", coordinates |-> <<>>]
NoHash == <<>>
AnalysisPageIdle ==
    /\ storage = [shapeData |-> NoShape, polyid |-> "none", coordsHash |-> NoHash]
    /\ mounted = FALSE
    /\ strictDue = FALSE
    /\ hasInitialized = FALSE
    /\ isCreatingPolygon = FALSE
    /\ effectDep = FALSE
    /\ effectRuns = 0
    /\ created = <<>>
    /\ settledRequests = 0
    /\ reusedPolyid = "none"
    /\ redirected = FALSE
    /\ pageError = "null"

RestIdle == HandlersIdle /\ FallbackIdle /\ AnalysisPageIdle

\* the NDVI payloads of the extraction inputs
NdviPayloads ==
    {NdviNone} \cup {Payload("array", q) : q \in SeqsUpTo(Entries, MaxEntries)}
    \cup {Payload("object", <<e>>) : e \in Entries \ {EntNull}}
    \cup {Payload("dataArray", q) : q \in SeqsUpTo(Entries, 1)}

GoodSoil == Soil(Num(29315), Num(28815), Num(189))
GoodNdvi == Payload("array", <<EntMean(Num(20), Num(10), Num(30)), EntMean(Num(40), Undef, Undef)>>)

\* an answer in the format the prompt asks for
GoodReply ==
    WithRecommendations(Reply(GStr(<<"9", "0", "%">>), GUndef, Level("High"), LUndef),
                        RArray(<<"irrigate", "add compost", "monitor NDVI">>))

\* what the soil source returns with an OK status
SoilBodies == {GoodSoil, Soil(Undef, BadStr, Null), SoilNone}
\* what the vegetation source returns with an OK status
NdviBodies ==
    { Payload("array", <<>>), Payload("array", <<EntEmpty>>), Payload("array", <<EntNull>>),
      GoodNdvi, Payload("array", <<Entry(NoData, Num(50), Undef)>>),
      Payload("array", <<EntMean(Null, Null, Null)>>),
      Payload("array", <<Entry(NoData, BadStr, Undef)>>),
      Payload("object", <<EntEmpty>>), Payload("object", <<EntMean(Num(40), Undef, Undef)>>) }

\* const timeRanges
timeRanges == <<"Last 1 year", "Last 6 months", "Last 3 months", "Last 30 days",
                "Last 7 days", "Last 1 day">>

(***************************************************************************)
(* analyzeAgriculture.                                                     *)
(***************************************************************************)
Respond(r) == response' = Append(response, r) /\ pc' = "done"

\* a plausible slip: the soil source is queried whatever the body holds
soilMissingAlways(sd) == TRUE

\* if (!soilData): nothing truthy was supplied in the body
soilMissing(sd) == sd = SoilNone

\* the request arrives: req.body.soilData and req.body.ndviHistory, when truthy
InitAnalyze ==
    /\ env \in [gemini : BOOLEAN, api : BOOLEAN]
    /\ pc = "start"
    /\ soilData \in {SoilNone, GoodSoil, SoilString}
    /\ ndviHistory \in {NdviNone, GoodNdvi}
    /\ widx = 1
    /\ ndviFetched = FALSE
    /\ queryLog = <<>>
    /\ lastOutcome = "none"
    /\ soilQueried = FALSE
    /\ cond = NoCond
    /\ polyArea = FALSE
    /\ geminiCalls = 0
    /\ geminiResult = "none"
    /\ geminiReplies = {GoodReply}
    /\ geminiAnalysis = NoReply
    /\ response = <<>>
    /\ threw = FALSE
    /\ PageIdle
    /\ RestIdle

\* the key checks, and the choice of what to fetch
Start ==
    /\ pc = "start"
    /\ IF ~env.gemini THEN Respond(Err(500))
       ELSE IF soilData = SoilNone \/ ndviHistory = NdviNone
            THEN IF ~env.api THEN Respond(Err(500))
                 ELSE /\ pc' = IF soilMissing(soilData) THEN "soil" ELSE "ndvi"
                      /\ UNCHANGED response
            ELSE pc' = "validate" /\ UNCHANGED response
    /\ UNCHANGED <<cvars, ovars>>
    /\ UNCHANGED <<env, soilData, ndviHistory, widx, ndviFetched, queryLog, lastOutcome,
                   soilQueried, cond, polyArea, geminiCalls, geminiResult,
                   geminiReplies, geminiAnalysis, threw>>

\* after the soil fetch: the NDVI fetch if ndviHistory is missing
AfterSoil == IF ndviHistory = NdviNone THEN "ndvi" ELSE "validate"

\* fetch of the soil source: OK with a body, a non-OK status, or a throw
SoilFetch ==
    /\ pc = "soil"
    /\ soilQueried' = TRUE
    /\ \E outcome \in {"ok", "nonok", "throw"} :
         CASE outcome = "ok" ->
                \E b \in SoilBodies :
                    soilData' = b /\ pc' = AfterSoil /\ UNCHANGED response
           [] outcome = "nonok" ->
                \E st \in {404, 500} : Respond(Err(st)) /\ UNCHANGED soilData
           [] outcome = "throw" ->
                Respond(Err(500)) /\ UNCHANGED soilData
    /\ UNCHANGED <<cvars, ovars>>
    /\ UNCHANGED <<env, ndviHistory, widx, ndviFetched, queryLog, lastOutcome,
                   cond, polyArea, geminiCalls, geminiResult,
                   geminiReplies, geminiAnalysis, threw>>

\* the outcome of one window's query
Outcome(st, b) ==
    CASE st = "ok" -> IF HasValidData(b) THEN "usable"
                      ELSE IF b = Payload("array", <<>>) THEN "empty" ELSE "nousable"
      [] st = "404" -> "404"
      [] st = "err" -> "nonok"
      [] OTHER -> "throw"

\* a plausible slip: the break after a usable window is missing
ContinuesNoBreak(o) == TRUE

\* the loop goes on after this outcome (no break)
Continues(o) == o # "usable"

LogEntry(w, res) == [w |-> w, res |-> res]

\* one iteration of the for loop over timeRanges: the fetch is sent
NdviSend ==
    /\ pc = "ndvi"
    /\ widx <= Len(timeRanges)
    /\ ~ndviFetched
    /\ queryLog' = Append(queryLog, LogEntry(timeRanges[widx], "pending"))
    /\ pc' = "ndviWait"
    /\ UNCHANGED <<cvars, ovars>>
    /\ UNCHANGED <<env, soilData, ndviHistory, widx, ndviFetched, lastOutcome, soilQueried,
                   cond, polyArea, geminiCalls, geminiResult,
                   geminiReplies, geminiAnalysis, response, threw>>

\* the fetch settles and the iteration ends; the last one leaves the loop
NdviReceive ==
    /\ pc = "ndviWait"
    /\ \E st \in {"ok", "404", "err", "throw"}, b \in NdviBodies :
         LET o == Outcome(st, b) IN
         /\ queryLog' = [queryLog EXCEPT ![Len(queryLog)].res =
                            IF o = "usable" THEN "usable" ELSE "unusable"]
         /\ lastOutcome' = o
         /\ IF Continues(o)
            THEN /\ widx' = widx + 1
                 /\ UNCHANGED <<ndviFetched, ndviHistory>>   \* null when the loop ends
                 /\ pc' = IF widx + 1 > Len(timeRanges) THEN "validate" ELSE "ndvi"
            ELSE /\ ndviHistory' = b
                 /\ ndviFetched' = TRUE
                 /\ pc' = "validate"
                 /\ UNCHANGED widx
    /\ UNCHANGED <<cvars, ovars>>
    /\ UNCHANGED <<env, soilData, soilQueried, cond, polyArea, geminiCalls, geminiResult,
                   geminiReplies, geminiAnalysis,
                   response, threw>>

\* the soil validation and the extraction of the conditions
ExtractStep ==
    /\ pc = "validate"
    /\ IF soilData.k # "object"
       THEN Respond(Err(404)) /\ UNCHANGED <<cond, threw>>
       ELSE LET c == Extract(soilData, ndviHistory) IN
            IF c.ndvi.threw
            THEN Respond(Err(500)) /\ threw' = TRUE /\ UNCHANGED cond
            ELSE cond' = c /\ pc' = "polygon" /\ UNCHANGED <<response, threw>>
    /\ UNCHANGED <<cvars, ovars>>
    /\ UNCHANGED <<env, soilData, ndviHistory, widx, ndviFetched, queryLog, lastOutcome,
                   soilQueried, polyArea, geminiCalls, geminiResult,
                   geminiReplies, geminiAnalysis>>

\* polygon info from the request body or the API; every failure is absorbed
PolygonStep ==
    /\ pc = "polygon"
    /\ polyArea' \in BOOLEAN
    /\ pc' = "gemini"
    /\ UNCHANGED <<cvars, ovars>>
    /\ UNCHANGED <<env, soilData, ndviHistory, widx, ndviFetched, queryLog, lastOutcome,
                   soilQueried, cond, geminiCalls, geminiResult,
                   geminiReplies, geminiAnalysis, response, threw>>

\* callGeminiAI and the response built from its result
GeminiStep ==
    /\ pc = "gemini"
    /\ geminiCalls' = geminiCalls + 1
    /\ \/ /\ geminiResult' = "null"
          /\ Respond(Err(500))
          /\ UNCHANGED geminiAnalysis
       \/ \E g \in geminiReplies :
             /\ geminiResult' = "result"
             /\ geminiAnalysis' = g
             /\ Respond(Ok(cond, polyArea, g))
    /\ UNCHANGED <<cvars, ovars>>
    /\ UNCHANGED <<env, soilData, ndviHistory, widx, ndviFetched, queryLog, lastOutcome,
                   soilQueried, cond, polyArea, geminiReplies, threw>>

NextAnalyze == Start \/ SoilFetch \/ NdviSend \/ NdviReceive \/ ExtractStep \/ PolygonStep \/ GeminiStep

SpecAnalyze == InitAnalyze /\ [][NextAnalyze]_vars

(***************************************************************************)
(* The extraction alone: soilData and ndviHistory both arrive in the       *)
(* request body, so nothing is fetched.                                    *)
(***************************************************************************)
SoilInputs == {Soil(t0, t10, m) : t0 \in T0Values, t10 \in T10Values, m \in MoistureValues}

InitExtract ==
    /\ env = [gemini |-> TRUE, api |-> TRUE]
    /\ pc = "validate"
    /\ \/ soilData \in SoilInputs /\ ndviHistory = GoodNdvi
       \/ soilData = GoodSoil /\ ndviHistory \in NdviPayloads \ {NdviNone}
    /\ widx = 1
    /\ ndviFetched = FALSE
    /\ queryLog = <<>>
    /\ lastOutcome = "none"
    /\ soilQueried = FALSE
    /\ cond = NoCond
    /\ polyArea = FALSE
    /\ geminiCalls = 0
    /\ geminiResult = "none"
    /\ geminiReplies = {GoodReply}
    /\ geminiAnalysis = NoReply
    /\ response = <<>>
    /\ threw = FALSE
    /\ PageIdle
    /\ RestIdle

NextExtract == ExtractStep \/ PolygonStep \/ GeminiStep

SpecExtract == InitExtract /\ [][NextExtract]_vars

(***************************************************************************)
(* The response alone: the data arrive in the request body and the         *)
(* collaborator answers with any of the replies.                           *)
(***************************************************************************)
ConfidenceValues ==
    { GUndef, GNull, GBool, GObj, GNum(900), GNum(1000), GNum(90000),
      GStr(<<"9", "0", "%">>), GStr(<<"0", ".", "9">>), GStr(<<" ", "8", "5", " ", "%">>),
      GStr(<<"1", "0", "0", "%">>), GStr(<<"1", "5", "0", "%">>), GStr(<<"1">>),
      GStr(<<"-", "5", "%">>), GStr(<<"h", "i", "g", "h">>), GStr(<<>>), GStr(<<"%">>) }

IndexValues ==
    { GNull, GObj, GNum(0), GNum(75000), GNum(100000), GNum(150000), GNum(-5000),
      GStr(<<"7", "5">>), GStr(<<"7", "5", ".", "5">>), GStr(<<"g", "o", "o", "d">>) }

LevelValues ==
    { LUndef, LNull, Level(""), Level("High"), Level("Moderate"), Level("Low"),
      Level("Medium") }

RecommendationValues ==
    { RUndef, RV("null", <<>>), RV("string", <<>>), RV("object", <<>>), RArray(<<>>),
      RArray(<<"irrigate">>), RArray(<<"irrigate", "add compost", "monitor NDVI">>),
      RArray(<<"irrigate", "add compost", "monitor NDVI", "test pH", "rotate crops">>) }

Replies ==
    {WithRecommendations(GoodReply, r) : r \in RecommendationValues} \cup
    {Reply(c, GUndef, Level("High"), LUndef) : c \in ConfidenceValues}
    \cup {Reply(GStr(<<"9", "0", "%">>), i, Level("Low"), LUndef) : i \in IndexValues}
    \cup {Reply(GStr(<<"9", "0", "%">>), GUndef, sql, fl) : sql \in LevelValues, fl \in LevelValues}

\* soil data with each field present or absent
RespondSoils ==
    {Soil(t0, t10, m) : t0 \in {Undef, Num(29315)}, t10 \in {Null, Num(28815)},
                        m \in {Undef, BadStr, Num(189)}}

InitRespond ==
    /\ env = [gemini |-> TRUE, api |-> TRUE]
    /\ pc = "validate"
    /\ soilData \in RespondSoils
    /\ ndviHistory \in {GoodNdvi, Payload("array", <<>>)}
    /\ widx = 1
    /\ ndviFetched = FALSE
    /\ queryLog = <<>>
    /\ lastOutcome = "none"
    /\ soilQueried = FALSE
    /\ cond = NoCond
    /\ polyArea = FALSE
    /\ geminiCalls = 0
    /\ geminiResult = "none"
    /\ geminiReplies = Replies
    /\ geminiAnalysis = NoReply
    /\ response = <<>>
    /\ threw = FALSE
    /\ PageIdle
    /\ RestIdle

NextRespond == ExtractStep \/ PolygonStep \/ GeminiStep

SpecRespond == InitRespond /\ [][NextRespond]_vars

(***************************************************************************)
(* loadComparisonAreas.                                                    *)
(***************************************************************************)
AnalyzeIdle ==
    /\ env = [gemini |-> TRUE, api |-> TRUE]
    /\ pc = "done"
    /\ soilData = SoilNone
    /\ ndviHistory = NdviNone
    /\ widx = 1
    /\ ndviFetched = FALSE
    /\ queryLog = <<>>
    /\ lastOutcome = "none"
    /\ soilQueried = FALSE
    /\ cond = NoCond
    /\ polyArea = FALSE
    /\ geminiCalls = 0
    /\ geminiResult = "none"
    /\ geminiReplies = {}
    /\ geminiAnalysis = NoReply
    /\ response = <<>>
    /\ threw = FALSE

Draw4(cosA, sinA, ratio) == [cosA |-> cosA, sinA |-> sinA, ratio |-> ratio]

\* angle and distanceRatio of the draws: two close to each other and one apart
Draws == { Draw4(1000, 0, 999), Draw4(1000, 0, 990), Draw4(-707, 707, 999) }

\* currentAnalysis.center as the mount effect leaves it: valid, out of range
\* (kept as is by the effect), or NaN
Centers == { Point(45000, -75000), Point(89900, 179900), Point(95000, 200000), NaNPoint }

\* the centres with the largest radius of the slider, one with the smallest
SampleInputs == {<<c, 100>> : c \in Centers} \cup {<<Point(45000, -75000), 10>>}

AttemptCap == MaxAttempts + 2      \* the model stops counting attempts here

\* a plausible slip: the button is never disabled
searchDisabledNever(loading) == FALSE

\* disabled={isLoading}
searchDisabled(loading) == loading

\* the search button: setComparisonAreas([]), setError(null), loadComparisonAreas()
\* up to the sampling loop
Click ==
    /\ ~searchDisabled(isLoading)
    /\ comparisonAreas' = <<>>
    /\ loadedCount' = 0
    /\ randomPoints' = <<>>
    /\ attempts' = 0
    /\ atLimit' = <<>>
    /\ forced' = <<>>
    /\ callpc' = NoCalls
    /\ callFail' = [i \in 1..4 |-> "none"]
    /\ results' = [i \in 1..4 |-> NoArea]
    /\ settledOrder' = <<>>
    /\ IF currentCenter.nan
       THEN error' = "Invalid center coordinates" /\ isLoading' = FALSE /\ cpc' = "done"
       ELSE error' = NoError /\ isLoading' = TRUE /\ cpc' = "sampling"
    /\ UNCHANGED <<currentCenter, radiusKm, rng>>
    /\ UNCHANGED <<avars, ovars>>

\* one pass of the do-while loop of the slot being filled; the pass that fills
\* the last slot starts the four callbacks
Draw ==
    /\ cpc = "sampling"
    /\ attempts < AttemptCap
    /\ \E d \in rng :
         LET point == generateRandomPoint(currentCenter, radiusKm, d)
             n == attempts + 1
             close == tooClose(randomPoints, point, radiusKm)
         IN IF LeavesLoop(close, n)
            THEN /\ randomPoints' = Append(randomPoints, point)
                 /\ atLimit' = Append(atLimit, n >= MaxAttempts)
                 /\ forced' = Append(forced, close)
                 /\ attempts' = 0
                 /\ IF Len(randomPoints) + 1 = numLocations
                    THEN cpc' = "calls" /\ callpc' = [i \in 1..4 |-> "create"]
                    ELSE UNCHANGED <<cpc, callpc>>
            ELSE /\ attempts' = n
                 /\ UNCHANGED <<randomPoints, atLimit, forced, cpc, callpc>>
    /\ UNCHANGED <<currentCenter, radiusKm, rng, callFail, results, settledOrder,
                   isLoading, error, comparisonAreas, loadedCount>>
    /\ UNCHANGED <<avars, ovars>>

\* a plausible slip: no try/catch around the callback, so a throw rejects
CaughtNothing(o) == o # "throw"

\* the callback's try/catch turns every failure into a null result
Caught(o) == TRUE

\* a plausible slip: the progress counter is bumped for a failed call too
LoadedAfterAlways(count, ok) == count + 1

\* setLoadedCount(prev => prev + 1), reached by a successful call only
LoadedAfter(count, ok) == IF ok THEN count + 1 ELSE count

\* the callback of point i ends with null
FailCall(i, step, o) ==
    /\ loadedCount' = LoadedAfter(loadedCount, FALSE)
    /\ IF Caught(o)
       THEN /\ callpc' = [callpc EXCEPT ![i] = "settled"]
            /\ callFail' = [callFail EXCEPT ![i] = step]
            /\ settledOrder' = Append(settledOrder, i)
            /\ UNCHANGED <<results, cpc, error, isLoading>>
       ELSE \* Promise.all rejects: the outer catch and finally of loadComparisonAreas
            /\ callpc' = [callpc EXCEPT ![i] = "settled"]
            /\ callFail' = [callFail EXCEPT ![i] = step]
            /\ settledOrder' = Append(settledOrder, i)
            /\ error' = "Failed to load comparison areas"
            /\ isLoading' = FALSE
            /\ cpc' = "done"
            /\ UNCHANGED results

\* POST /api/soil/polygon for point i
CreateStep(i) ==
    /\ callpc[i] = "create"
    /\ \E o \in {"ok", "existing", "limit", "fail", "noid", "throw"} :
         IF o \in {"ok", "existing"}
         THEN /\ callpc' = [callpc EXCEPT ![i] = "analyze"]
              /\ UNCHANGED <<callFail, results, settledOrder, cpc, error, isLoading, loadedCount>>
         ELSE FailCall(i, "create", o)
    /\ UNCHANGED <<currentCenter, radiusKm, rng, randomPoints, attempts, atLimit, forced,
                   comparisonAreas>>
    /\ UNCHANGED <<avars, ovars>>

\* analysis.Soil_Quality_Index of the responses: two numbers and a non-number
SqiValues == {Num(30), Num(80), Null}

\* typeof analysis.Soil_Quality_Index === 'number' ? analysis.Soil_Quality_Index : 0
ScoreOf(sqi) == IF IsNumberType(sqi) THEN sqi.v ELSE 0

\* POST /api/ai-analysis/:polyid for point i
AnalyzeStep(i) ==
    /\ callpc[i] = "analyze"
    /\ \E o \in {"ok", "nonok", "throw"} :
         IF o = "ok"
         THEN \E sqi \in SqiValues :
              /\ results' = [results EXCEPT ![i] = [idx |-> i, score |-> ScoreOf(sqi)]]
              /\ callpc' = [callpc EXCEPT ![i] = "settled"]
              /\ settledOrder' = Append(settledOrder, i)
              /\ loadedCount' = LoadedAfter(loadedCount, TRUE)
              /\ UNCHANGED <<callFail, cpc, error, isLoading>>
         ELSE FailCall(i, "analyze", o)
    /\ UNCHANGED <<currentCenter, radiusKm, rng, randomPoints, attempts, atLimit, forced,
                   comparisonAreas>>
    /\ UNCHANGED <<avars, ovars>>

\* a plausible slip: Promise.race instead of Promise.all
AnySettled(cp) == \E i \in 1..4 : cp[i] = "settled"

\* await Promise.all(areaPromises) resumes
AllSettled(cp) == \A i \in 1..4 : cp[i] = "settled"

RECURSIVE NonNull(_)
NonNull(q) ==
    IF q = <<>> THEN <<>>
    ELSE (IF Head(q) # NoArea THEN <<Head(q)>> ELSE <<>>) \o NonNull(Tail(q))

\* a plausible slip: the areas are gathered as the callbacks complete
GatheredAsCompleted(res, order) == NonNull([k \in 1..Len(order) |-> res[order[k]]])

\* (await Promise.all(areaPromises)).filter(Boolean): in the order of the points
Gathered(res, order) == NonNull([k \in 1..4 |-> res[k]])

\* a plausible slip: any missing area counts as failure
ReportsFailureIfAnyMissing(areas) == Len(areas) < numLocations

\* areas.length === 0
ReportsFailure(areas) == Len(areas) = 0

\* x placed behind every area whose score is not lower: the stable order
RECURSIVE InsertByScore(_, _)
InsertByScore(q, x) ==
    IF q = <<>> THEN <<x>>
    ELSE IF Head(q).score >= x.score THEN <<Head(q)>> \o InsertByScore(Tail(q), x)
    ELSE <<x>> \o q

\* areas.sort((a, b) => b.score - a.score)
RECURSIVE SortByScore(_)
SortByScore(q) ==
    IF q = <<>> THEN <<>>
    ELSE InsertByScore(SortByScore(SubSeq(q, 1, Len(q) - 1)), q[Len(q)])

\* the code after await Promise.all: the error or the ranked list, then finally
Collect ==
    /\ cpc = "calls"
    /\ AllSettled(callpc)
    /\ LET areas == Gathered(results, settledOrder) IN
       IF ReportsFailure(areas)
       THEN error' = "Unable to create or analyze comparison areas" /\ UNCHANGED comparisonAreas
       ELSE comparisonAreas' = SortByScore(areas) /\ UNCHANGED error
    /\ isLoading' = FALSE
    /\ cpc' = "done"
    /\ UNCHANGED <<currentCenter, radiusKm, rng, randomPoints, attempts, atLimit, forced,
                   callpc, callFail, results, settledOrder, loadedCount>>
    /\ UNCHANGED <<avars, ovars>>

PageStart ==
    /\ cpc = "idle"
    /\ randomPoints = <<>>
    /\ attempts = 0
    /\ atLimit = <<>>
    /\ forced = <<>>
    /\ callpc = NoCalls
    /\ callFail = [i \in 1..4 |-> "none"]
    /\ results = [i \in 1..4 |-> NoArea]
    /\ settledOrder = <<>>
    /\ isLoading = FALSE
    /\ error = NoError
    /\ comparisonAreas = <<>>
    /\ loadedCount = 0

\* the sampling loop under every centre
InitSample ==
    /\ AnalyzeIdle
    /\ RestIdle
    /\ PageStart
    /\ \E in \in SampleInputs : currentCenter = in[1] /\ radiusKm = in[2]
    /\ rng = Draws

NextSample == Click \/ Draw

SpecSample == InitSample /\ [][NextSample]_vars

\* the whole search, with one draw of the random source
InitCompare ==
    /\ AnalyzeIdle
    /\ RestIdle
    /\ PageStart
    /\ currentCenter \in {Point(45000, -75000), NaNPoint}
    /\ radiusKm = 100
    /\ rng = {Draw4(1000, 0, 999)}

NextCompare ==
    \/ Click
    \/ Draw
    \/ \E i \in 1..4 : CreateStep(i)
    \/ \E i \in 1..4 : AnalyzeStep(i)
    \/ Collect

SpecCompare == InitCompare /\ [][NextCompare]_vars

(***************************************************************************)
(* getSoilData, createPolygon and getPolygonData.  A request is routed to  *)
(* one handler; the handler awaits the upstream fetch and the parsing of   *)
(* its body, either of which may throw.                                    *)
(***************************************************************************)
MaxRing == 4

\* req.body.coordinates: an array of [lat, lon] pairs, or missing
CoordinatePairs == {<<lat, lon>> : lat \in 0..1, lon \in 0..1}
CoordinateInputs ==
    {[t |-> "array", pts |-> q] : q \in SeqsUpTo(CoordinatePairs, MaxRing)} \cup
    {[t |-> "undefined", pts |-> <<>>]}

Requests ==
    {[handler |-> "createPolygon", coordinates |-> c] : c \in CoordinateInputs} \cup
    {[handler |-> h, coordinates |-> [t |-> "undefined", pts |-> <<>>]] :
        h \in {"getSoilData", "getPolygonData"}}

\* coordinates.map(([lat, lon]) => [lon, lat])
properCoords(coordinates) ==
    [i \in 1..Len(coordinates) |-> <<coordinates[i][2], coordinates[i][1]>>]

\* the commented-out variant: [...coordinates, coordinates[0]]
closeRingAlways(ring) == Append(ring, ring[1])

\* if the first and the last point differ in either component, push the first
closeRing(ring) ==
    IF ring[1][1] # ring[Len(ring)][1] \/ ring[1][2] # ring[Len(ring)][2]
    THEN Append(ring, ring[1])
    ELSE ring

\* res.status(status).json(body)
Send(status, body) == hres' = Append(hres, [status |-> status, body |-> body])

\* the outcomes of the awaited fetch and of response.json()
UpstreamOutcomes == {"ok", "notOk", "fetchThrows", "jsonThrows"}

\* getSoilData: the body of the upstream answer is passed on whatever its
\* status; a throw is answered with 500
getSoilData ==
    /\ hreq.handler = "getSoilData" /\ hpc = "start"
    /\ \E o \in UpstreamOutcomes :
         IF o \in {"ok", "notOk"} THEN Send(200, "data") ELSE Send(500, "Server error")
    /\ hpc' = "done"
    /\ UNCHANGED <<hreq, hsent, avars, cvars, gvars, pvars>>

\* createPolygon up to the fetch: missing or empty coordinates throw inside
\* the try block and are answered with 500 without any upstream call
createPolygonSend ==
    /\ hreq.handler = "createPolygon" /\ hpc = "start"
    /\ IF hreq.coordinates.t # "array" \/ hreq.coordinates.pts = <<>>
       THEN Send(500, "Server error") /\ hpc' = "done" /\ UNCHANGED hsent
       ELSE /\ hsent' = Append(hsent, closeRing(properCoords(hreq.coordinates.pts)))
            /\ hpc' = "fetch"
            /\ UNCHANGED hres
    /\ UNCHANGED <<hreq, avars, cvars, gvars, pvars>>

\* createPolygon after the fetch
createPolygonSettle ==
    /\ hreq.handler = "createPolygon" /\ hpc = "fetch"
    /\ \E o \in UpstreamOutcomes :
         CASE o = "ok" -> Send(200, "polyid")
           [] o = "notOk" -> Send(500, "Failed to create polygon")
           [] OTHER -> Send(500, "Server error")
    /\ hpc' = "done"
    /\ UNCHANGED <<hreq, hsent, avars, cvars, gvars, pvars>>

\* getPolygonData: the catch block logs and rethrows, so the promise of the
\* handler is rejected and the handler itself sends nothing
getPolygonData ==
    /\ hreq.handler = "getPolygonData" /\ hpc = "start"
    /\ \E o \in UpstreamOutcomes :
         IF o \in {"ok", "notOk"}
         THEN Send(200, "data") /\ hpc' = "done"
         ELSE hpc' = "rejected" /\ UNCHANGED hres
    /\ UNCHANGED <<hreq, hsent, avars, cvars, gvars, pvars>>

\* the router after a rejected handler; server.js installs no error
\* middleware.  A router that does not observe the promise leaves the
\* request unanswered, one that does answers 500 by its default handler.
Rejected ==
    /\ hpc = "rejected"
    /\ \/ UNCHANGED hres
       \/ Send(500, "Internal Server Error")
    /\ hpc' = "done"
    /\ UNCHANGED <<hreq, hsent, avars, cvars, gvars, pvars>>

InitHandlers ==
    /\ hreq \in Requests
    /\ hpc = "start"
    /\ hsent = <<>>
    /\ hres = <<>>
    /\ AnalyzeIdle
    /\ PageIdle
    /\ FallbackIdle
    /\ AnalysisPageIdle

NextHandlers ==
    getSoilData \/ createPolygonSend \/ createPolygonSettle \/ getPolygonData \/ Rejected

SpecHandlers == InitHandlers /\ [][NextHandlers]_vars


(***************************************************************************)
(* The model fallback of callGeminiAI.  The primary model is asked first;  *)
(* when it fails with a not-found error the alternative models are asked   *)
(* one after the other.                                                    *)
(***************************************************************************)
\* s.includes(sub) on character sequences
Includes(s, sub) ==
    \E i \in 1..(Len(s) - Len(sub) + 1) : SubSeq(s, i, i + Len(sub) - 1) = sub

\* apiError.message && (message.includes("not found") ||
\*                      message.includes("404") || apiError.status === 404)
isNotFound(e) ==
    /\ e.message # <<>>
    /\ \/ Includes(e.message, <<"n", "o", "t", " ", "f", "o", "u", "n", "d">>)
       \/ Includes(e.message, <<"4", "0", "4">>)
       \/ e.status = 404

\* the errors generateContent throws: message, status (0 when the error has
\* none), and whether the service reported the model as not found
ApiErrors ==
    { [message |-> <<"[", "4", "0", "4", " ", "N", "o", "t", " ", "F", "o", "u", "n", "d", "]", " ", "m", "o", "d", "e", "l", " ", "i", "s", " ", "n", "o", "t", " ", "f", "o", "u", "n", "d">>,
       status |-> 404, notFound |-> TRUE],
      [message |-> <<"m", "o", "d", "e", "l", " ", "i", "s", " ", "n", "o", "t", " ", "f", "o", "u", "n", "d", " ", "f", "o", "r", " ", "A", "P", "I", " ", "v", "e", "r", "s", "i", "o", "n">>,
       status |-> 0, notFound |-> TRUE],
      [message |-> <<"[", "4", "0", "4", " ", "N", "o", "t", " ", "F", "o", "u", "n", "d", "]">>,
       status |-> 404, notFound |-> TRUE],
      [message |-> <<"[", "4", "2", "9", " ", "T", "o", "o", " ", "M", "a", "n", "y", " ", "R", "e", "q", "u", "e", "s", "t", "s", "]">>,
       status |-> 429, notFound |-> FALSE],
      [message |-> <<"[", "4", "0", "3", " ", "F", "o", "r", "b", "i", "d", "d", "e", "n", "]", " ", "A", "P", "I", " ", "k", "e", "y", " ", "n", "o", "t", " ", "v", "a", "l", "i", "d">>,
       status |-> 403, notFound |-> FALSE],
      [message |-> <<"f", "e", "t", "c", "h", " ", "f", "a", "i", "l", "e", "d">>,
       status |-> 0, notFound |-> FALSE] }

\* the array literal of the fallback
AllModels ==
    << "gemini-2.5-flash", "gemini-2.0-flash-exp", "gemini-1.5-flash", "gemini-1.5-pro",
       "gemini-1.5-flash-latest", "gemini-1.5-pro-latest", "gemini-pro" >>

\* a plausible slip: the model already tried is asked again
alternativeModelsUnfiltered(name) == AllModels

\* [...].filter(m => m !== modelName)
alternativeModels(name) == SelectSeq(AllModels, LAMBDA m : m # name)

\* process.env.GEMINI_MODEL || "gemini-2.5-flash"
PrimaryModels == {"gemini-2.5-flash", "gemini-1.5-pro", "gemini-exp-1206"}

\* which models answer: none, one or two of the listed ones, and maybe the primary
Availabilities(primary) ==
    LET listed == {AllModels[i] : i \in 1..Len(AllModels)} \ {primary}
        some == {{}} \cup {{m} : m \in listed} \cup {{m, n} : m \in listed, n \in listed}
    IN some \cup {a \cup {primary} : a \in some}

\* JSON.parse of the text of the answer gives the result, or throws and null
\* is returned
Parsed == \E ok \in BOOLEAN : returned' = IF ok THEN "result" ELSE "null"

\* the primary model is asked; a not-found error starts the for loop, any
\* other error is rethrown to the outer catch, which returns null
TryPrimary ==
    /\ gpc = "primary"
    /\ tried' = Append(tried, modelName)
    /\ IF modelName \in available
       THEN /\ Parsed /\ success' = TRUE /\ gpc' = "done"
            /\ UNCHANGED remaining
       ELSE IF isNotFound(apiError)
            THEN /\ remaining' = alternativeModels(modelName)
                 /\ gpc' = "alternatives"
                 /\ UNCHANGED <<success, returned>>
            ELSE /\ returned' = "null" /\ gpc' = "done"
                 /\ UNCHANGED <<success, remaining>>
    /\ UNCHANGED <<modelName, available, apiError, avars, cvars, hvars, pvars>>

\* one pass of the for loop; after the last alternative has failed the
\* "All Gemini models failed" error goes to the outer catch
TryAlternative ==
    /\ gpc = "alternatives" /\ remaining # <<>>
    /\ LET altModelName == Head(remaining)
       IN /\ tried' = Append(tried, altModelName)
          /\ IF altModelName \in available
             THEN /\ modelName' = altModelName
                  /\ success' = TRUE
                  /\ Parsed /\ gpc' = "done"
                  /\ UNCHANGED remaining
             ELSE /\ remaining' = Tail(remaining)
                  /\ IF Tail(remaining) = <<>>
                     THEN returned' = "null" /\ gpc' = "done"
                     ELSE UNCHANGED <<returned, gpc>>
                  /\ UNCHANGED <<modelName, success>>
    /\ UNCHANGED <<available, apiError, avars, cvars, hvars, pvars>>

InitFallback ==
    /\ modelName \in PrimaryModels
    /\ available \in Availabilities(modelName)
    /\ apiError \in ApiErrors
    /\ gpc = "primary"
    /\ tried = <<>>
    /\ remaining = <<>>
    /\ success = FALSE
    /\ returned = "none"
    /\ AnalyzeIdle
    /\ PageIdle
    /\ HandlersIdle
    /\ AnalysisPageIdle

NextFallback == TryPrimary \/ TryAlternative

SpecFallback == InitFallback /\ [][NextFallback]_vars


(***************************************************************************)
(* The analysis page: the initialization effect and                        *)
(* createPolygonAndFetchData.  Coordinates are in tenths of a millionth of *)
(* a degree, so that rounding to six decimals does something.              *)
(***************************************************************************)
MaxRequests == 3       \* the model stops issuing creation requests here
MaxEffectRuns == 5     \* the model stops running the effect here

\* Math.round(x * 1000000) / 1000000
Round6(x) == (x + 5) \div 10

\* JSON.stringify(coordinates.map(coord => [round(lat), round(lng)]))
coordsHash(coordinates) ==
    [i \in 1..Len(coordinates) |-> <<Round6(coordinates[i][1]), Round6(coordinates[i][2])>>]

DrawnShape(coordinates) == [k |-> "shape", coordinates |-> coordinates]

\* shapeData in localStorage: missing, not JSON, or a drawn shape; the second
\* shape differs from the first below the sixth decimal, the last has two points
StoredShapes ==
    { NoShape, [k |-> "malformed", coordinates |-> <<>>],
      DrawnShape(<< <<10, 20>>, <<30, 20>>, <<30, 40>> >>),
      DrawnShape(<< <<12, 20>>, <<30, 20>>, <<30, 40>> >>),
      DrawnShape(<< <<10, 20>>, <<30, 26>>, <<30, 40>> >>),
      DrawnShape(<< <<10, 20>>, <<30, 20>> >>) }

StoredPolyids == {"none", "stored-id"}

StoredHashes ==
    { NoHash, coordsHash(<< <<10, 20>>, <<30, 20>>, <<30, 40>> >>),
      coordsHash(<< <<10, 20>>, <<30, 26>>, <<30, 40>> >>) }

\* a plausible slip: the effect has no guard against a second run
skipEffectNever(initialized) == FALSE

\* if (hasInitializedRef.current) return
skipEffect(initialized) == initialized

\* createPolygonAndFetchData(coords) up to its fetch, with the value of
\* isCreatingPolygon its closure holds; fewer than 3 points throw before the
\* fetch and the finally block resets the flag within the same task
createPolygonAndFetchData(captured, coords) ==
    IF captured
    THEN UNCHANGED <<isCreatingPolygon, created, pageError>>
    ELSE IF Len(coords) < 3
         THEN /\ pageError' = "Polygon must have at least 3 points"
              /\ UNCHANGED <<isCreatingPolygon, created>>
         ELSE /\ isCreatingPolygon' = TRUE
              /\ created' = Append(created, coords)
              /\ pageError' = "null"

\* the body of the initialization effect
Effect(captured) ==
    /\ effectRuns < MaxEffectRuns /\ Len(created) < MaxRequests
    /\ effectRuns' = effectRuns + 1
    /\ IF skipEffect(hasInitialized)
       THEN UNCHANGED <<storage, hasInitialized, isCreatingPolygon, created, reusedPolyid,
                        redirected, pageError>>
       ELSE IF storage.shapeData.k # "shape"
            THEN /\ redirected' = TRUE
                 /\ UNCHANGED <<storage, hasInitialized, isCreatingPolygon, created,
                                reusedPolyid, pageError>>
            ELSE LET hash == coordsHash(storage.shapeData.coordinates) IN
                 IF storage.polyid # "none" /\ storage.coordsHash = hash
                 THEN /\ reusedPolyid' = storage.polyid
                      /\ storage' = [storage EXCEPT !.coordsHash = hash]
                      /\ hasInitialized' = TRUE
                      /\ pageError' = "null"
                      /\ UNCHANGED <<isCreatingPolygon, created, redirected>>
                 ELSE /\ storage' = [storage EXCEPT !.polyid = "none", !.coordsHash = hash]
                      /\ hasInitialized' = TRUE
                      /\ createPolygonAndFetchData(captured, storage.shapeData.coordinates)
                      /\ UNCHANGED <<reusedPolyid, redirected>>
    /\ UNCHANGED <<settledRequests, avars, cvars, hvars, gvars>>

\* the page mounts and the effect runs
Mount ==
    /\ ~mounted
    /\ mounted' = TRUE
    /\ Effect(FALSE)
    /\ UNCHANGED <<strictDue, effectDep>>

\* StrictMode runs the effect of the first render once more
StrictRerun ==
    /\ mounted /\ strictDue
    /\ strictDue' = FALSE
    /\ Effect(FALSE)
    /\ UNCHANGED <<mounted, effectDep>>

\* isCreatingPolygon has changed, so createPolygonAndFetchData is a new
\* callback and the effect, which depends on it, runs again
DependencyRerun ==
    /\ mounted /\ isCreatingPolygon # effectDep
    /\ effectDep' = isCreatingPolygon
    /\ Effect(isCreatingPolygon)
    /\ UNCHANGED <<mounted, strictDue>>

\* the oldest creation request in flight is answered
CreateSettles ==
    /\ settledRequests < Len(created)
    /\ settledRequests' = settledRequests + 1
    /\ \E o \in {"ok", "existing", "limit", "fail", "throw"} :
         CASE o = "ok" ->
                /\ storage' = [storage EXCEPT !.polyid = "new-id",
                                   !.coordsHash = coordsHash(created[settledRequests + 1])]
                /\ UNCHANGED pageError
           [] o = "existing" ->
                /\ storage' = [storage EXCEPT !.polyid = "existing-id",
                                   !.coordsHash = coordsHash(created[settledRequests + 1])]
                /\ UNCHANGED pageError
           [] OTHER -> pageError' = o /\ UNCHANGED storage
    /\ isCreatingPolygon' = FALSE
    /\ UNCHANGED <<mounted, strictDue, hasInitialized, effectDep, effectRuns, created,
                   reusedPolyid, redirected>>
    /\ UNCHANGED <<avars, cvars, hvars, gvars>>

InitAnalysisPage ==
    /\ storage \in [shapeData : StoredShapes, polyid : StoredPolyids, coordsHash : StoredHashes]
    /\ mounted = FALSE
    /\ strictDue \in BOOLEAN
    /\ hasInitialized = FALSE
    /\ isCreatingPolygon = FALSE
    /\ effectDep = FALSE
    /\ effectRuns = 0
    /\ created = <<>>
    /\ settledRequests = 0
    /\ reusedPolyid = "none"
    /\ redirected = FALSE
    /\ pageError = "null"
    /\ AnalyzeIdle
    /\ PageIdle
    /\ HandlersIdle
    /\ FallbackIdle

NextAnalysisPage == Mount \/ StrictRerun \/ DependencyRerun \/ CreateSettles

SpecAnalysisPage == InitAnalysisPage /\ [][NextAnalysisPage]_vars


(***************************************************************************)
(* Properties.                                                             *)
(***************************************************************************)
LastQuery == queryLog[Len(queryLog)]

\* C1: the vegetation source is queried one window at a time in the order of
\* timeRanges; a window is queried only after every earlier one has completed
\* unusable, an unusable outcome before the last window keeps the loop going,
\* and nothing is queried after the first usable window.
C1_WindowsInOrder ==
    /\ Len(queryLog) <= Len(timeRanges)
    /\ \A i \in 1..Len(queryLog) :
          /\ queryLog[i].w = timeRanges[i]
          /\ i < Len(queryLog) => queryLog[i].res = "unusable"
    /\ (queryLog # <<>> /\ LastQuery.res = "unusable" /\ Len(queryLog) < Len(timeRanges))
          => pc = "ndvi" /\ widx = Len(queryLog) + 1
    /\ (queryLog # <<>> /\ LastQuery.res = "usable")
          => pc \notin {"ndvi", "ndviWait"} /\ ndviFetched

C1_Witness ==
    /\ Len(queryLog) = Len(timeRanges)
    /\ LastQuery.res = "usable"
    /\ ndviHistory = GoodNdvi

AllWindowsUnusable ==
    /\ Len(queryLog) = Len(timeRanges)
    /\ \A i \in 1..Len(queryLog) : queryLog[i].res = "unusable"

\* C2: when all six windows are unusable the request goes on without NDVI
\* history: the five statistics are null, the scoring collaborator is called
\* once, and when it succeeds the response is a success whose vegetation
\* values are N/A and whose vegetation status is 'unknown'.
C2_NoNdviStillAnalyzed ==
    (AllWindowsUnusable /\ soilData.k = "object") =>
        /\ ndviHistory = NdviNone
        /\ ~threw
        /\ cond.ndvi = NoStats
        /\ pc = "done" =>
              /\ geminiCalls = 1
              /\ Len(response) = 1
              /\ geminiResult = "result" =>
                    /\ response[1].status = 200
                    /\ response[1].cc.vegStatus = "unknown"
                    /\ response[1].cc.ndvi_mean = NA
                    /\ response[1].cc.ndvi_median = NA
                    /\ response[1].cc.ndvi_min = NA
                    /\ response[1].cc.ndvi_max = NA
                    /\ response[1].cc.ndvi_std = NA

C2_Witness ==
    /\ AllWindowsUnusable
    /\ pc = "done"
    /\ geminiResult = "result"
    /\ response = <<Ok(cond, polyArea, geminiAnalysis)>>

Malformed == {Undef, Null, NaNv, BadStr, ObjV}
Extracted == pc \in {"polygon", "gemini", "done"}

\* C10: malformed or missing soil and vegetation fields never make the
\* extraction throw, and every such field is extracted as null, shown as
\* 'N/A' and labelled 'unknown'.
C10_MalformedIsAbsent ==
    /\ ~threw
    /\ Extracted =>
          /\ soilData.t0 \in Malformed => cond.temp0cm = Null
          /\ soilData.t10 \in Malformed => cond.temp10cm = Null
          /\ soilData.moisture \in Malformed => cond.moisture = Null
    /\ (pc = "done" /\ geminiResult = "result") =>
          /\ soilData.t0 \in Malformed =>
                response[1].cc.surface = NA /\ response[1].cc.tempStatus = "unknown"
          /\ soilData.t10 \in Malformed => response[1].cc.depth_10cm = NA
          /\ soilData.moisture \in Malformed =>
                response[1].cc.moisture = NA /\ response[1].cc.moistureStatus = "unknown"

Successes == {i \in 1..4 : results[i] # NoArea}
Pending(i) == callpc[i] \in {"create", "analyze"}

\* C3: a failure of one point's callback, at either step, settles that
\* callback with null and leaves the search and every other callback as they
\* were; every callback that has not settled can still take its next step.
C3_CallsIndependent ==
    /\ [](\A j \in 1..4 :
            /\ callpc[j] = "create" => ENABLED CreateStep(j)
            /\ callpc[j] = "analyze" => ENABLED AnalyzeStep(j)
            /\ (callpc[j] = "settled" /\ callFail[j] = "none") => results[j].idx = j)
    /\ [][\A i \in 1..4 :
            (callFail[i] = "none" /\ callFail'[i] # "none") =>
                /\ results'[i] = NoArea
                /\ callpc'[i] = "settled"
                /\ cpc' = cpc /\ error' = error /\ isLoading' = isLoading
                /\ \A j \in (1..4) \ {i} :
                      /\ callpc'[j] = callpc[j]
                      /\ results'[j] = results[j]
                      /\ callFail'[j] = callFail[j]]_vars

C3_Witness ==
    /\ cpc = "calls"
    /\ callFail[1] = "create"
    /\ callFail[2] = "analyze"
    /\ results[3] # NoArea
    /\ callpc[4] = "create"

\* C4: the search ends with the error set exactly when no callback produced
\* an area; with k >= 1 areas the error is null and the list has k entries.
C4_FailureIffNone ==
    cpc = "done" =>
        /\ (error # NoError) <=> (Cardinality(Successes) = 0)
        /\ Len(comparisonAreas) = Cardinality(Successes)

C4_Witness ==
    /\ cpc = "done"
    /\ Cardinality(Successes) = 2
    /\ Len(comparisonAreas) = 2
    /\ error = NoError

\* C5: the published list holds the areas by descending score, equal scores in
\* the order of their points, whatever the order of completion.
C5_RankedStable ==
    (cpc = "done" /\ error = NoError) =>
        /\ {comparisonAreas[k] : k \in 1..Len(comparisonAreas)} = {results[i] : i \in Successes}
        /\ \A a, b \in 1..Len(comparisonAreas) :
              a < b => \/ comparisonAreas[a].score > comparisonAreas[b].score
                       \/ /\ comparisonAreas[a].score = comparisonAreas[b].score
                          /\ comparisonAreas[a].idx < comparisonAreas[b].idx

Before(i, j) ==
    \E a, b \in 1..Len(settledOrder) : a < b /\ settledOrder[a] = i /\ settledOrder[b] = j

C5_Witness ==
    /\ cpc = "done"
    /\ Len(comparisonAreas) = 3
    /\ comparisonAreas[1].score = comparisonAreas[2].score
    /\ Before(comparisonAreas[2].idx, comparisonAreas[1].idx)
    /\ Before(comparisonAreas[3].idx, comparisonAreas[2].idx)

\* C6: while a callback is pending the search is still loading and nothing is
\* published: no ranked list and no error.
C6_PublishedAfterAll ==
    (\E j \in 1..4 : Pending(j)) =>
        /\ cpc = "calls"
        /\ isLoading
        /\ comparisonAreas = <<>>
        /\ error = NoError

C6_Witness ==
    /\ cpc = "done"
    /\ \A j \in 1..4 : callpc[j] = "settled"
    /\ Len(comparisonAreas) = 3
    /\ Len(settledOrder) = 4

\* C7 as stated: during the concurrent phase no step of a callback changes a
\* shared variable of the page.
C7_NoSharedWrites ==
    [][(cpc = "calls" /\ cpc' = "calls") =>
          UNCHANGED <<isLoading, error, comparisonAreas, loadedCount,
                      radiusKm, currentCenter, randomPoints>>]_vars

\* C7 as amended: during the concurrent phase a callback changes no shared
\* variable but the progress counter loadedCount, which it raises by one when
\* it succeeds, so that the counter is the number of areas produced so far.
C7_OnlyProgressCounter ==
    [][(cpc = "calls" /\ cpc' = "calls") =>
          /\ UNCHANGED <<isLoading, error, comparisonAreas, radiusKm, currentCenter,
                         randomPoints>>
          /\ loadedCount' = Cardinality(Successes')
          /\ loadedCount' \in {loadedCount, loadedCount + 1}]_vars

C7_Witness ==
    /\ cpc = "calls"
    /\ loadedCount = 2
    /\ Cardinality(Successes) = 2
    /\ callFail[1] # "none"
    /\ Pending(4)

\* candidates drawn so far, counting MaxAttempts for every filled slot
Measure == Len(randomPoints) * MaxAttempts + attempts

\* C8: the sampling loop ends with exactly 4 points: every pass of the loop
\* raises a measure bounded by 4 * 50 until the fourth point is accepted, no
\* slot draws a 51st candidate, and a candidate that is still too close is
\* accepted only as the 50th of its slot.
C8_SamplingEnds ==
    [][/\ cpc = "sampling" => (cpc' = "calls" \/ Measure' > Measure)
       /\ (attempts < MaxAttempts)'
       /\ (Measure <= numLocations * MaxAttempts)'
       /\ (Len(randomPoints) <= numLocations /\ Len(atLimit) = Len(randomPoints))'
       /\ (cpc = "sampling" => Len(randomPoints) < numLocations /\ rng # {})'
       /\ (cpc = "calls" => Len(randomPoints) = numLocations)'
       /\ (\A i \in 1..Len(forced) : forced[i] => atLimit[i])']_vars

C8_Witness ==
    /\ cpc = "calls"
    /\ Len(randomPoints) = numLocations
    /\ forced[2] /\ atLimit[2]
    /\ ~forced[3] /\ ~atLimit[3]

InRangePoint(p) ==
    /\ ~p.nan
    /\ -90000 <= p.lat /\ p.lat <= 90000
    /\ -180000 <= p.lng /\ p.lng <= 180000

\* C9: every point generateRandomPoint returns to the comparison search has
\* its latitude in [-90, 90] and its longitude in [-180, 180] and is not NaN.
C9_PointsInRange ==
    \A i \in 1..Len(randomPoints) : InRangePoint(randomPoints[i])

Answered == pc = "done" /\ geminiResult = "result"

\* C11: the confidence of every successful response lies in [0, 1], whatever
\* form the collaborator's Confidence takes: absent, a string or a number.
C11_ConfidenceInUnit ==
    (Answered /\ geminiAnalysis.Confidence.t \in {"undefined", "string", "number"}) =>
        /\ response[1].Confidence.t = "number"
        /\ 0 <= response[1].Confidence.v
        /\ response[1].Confidence.v <= 1000

\* the Confidence cannot be parsed to a number
Unparseable(conf) ==
    \/ conf.t \in {"null", "object", "boolean"}
    \/ conf.t = "string" /\ ParseFloat(Trim(RemoveFirst(conf.s, "%"))) = NaNv

\* C12: the response confidence is never NaN, and an unparseable Confidence
\* (unparseable string, null, object, boolean) gives the completeness-based
\* confidence.
C12_ConfidenceNeverNaN ==
    Answered =>
        /\ response[1].Confidence.t = "number"
        /\ Unparseable(geminiAnalysis.Confidence) =>
              response[1].Confidence = Num(dataCompleteness(cond, polyArea))

\* C13: the Soil_Quality_Index of every successful response is a number in
\* [0, 100], whatever the collaborator returned as index and levels.
C13_IndexInRange ==
    Answered =>
        /\ response[1].Soil_Quality_Index.t = "number"
        /\ 0 <= response[1].Soil_Quality_Index.v
        /\ response[1].Soil_Quality_Index.v <= 100000

Absent(l) == l \in {LUndef, LNull}

\* C14: with no Soil_Quality_Index, the score is 80 for 'High', 60 for
\* 'Moderate' and 30 for 'Low', the level being Soil_Quality_Level or, when
\* that is absent, Fertility_Level.
C14_ScoreFromLevel ==
    (Answered /\ geminiAnalysis.Soil_Quality_Index = GUndef) =>
        \A named \in {<<"High", 80000>>, <<"Moderate", 60000>>, <<"Low", 30000>>} :
            (\/ geminiAnalysis.Soil_Quality_Level = Level(named[1])
             \/ /\ Absent(geminiAnalysis.Soil_Quality_Level)
                /\ geminiAnalysis.Fertility_Level = Level(named[1]))
            => response[1].Soil_Quality_Index = Num(named[2])

C14_Witness ==
    /\ Answered
    /\ geminiAnalysis.Soil_Quality_Index = GUndef
    /\ geminiAnalysis.Soil_Quality_Level = LUndef
    /\ geminiAnalysis.Fertility_Level = Level("Moderate")
    /\ response[1].Soil_Quality_Index = Num(60000)

\* the weights of the fields that are present, in thousandths
PresentWeights ==
    <<IF cond.temp0cm # Null THEN 150 ELSE 0, IF cond.temp10cm # Null THEN 150 ELSE 0,
      IF cond.moisture # Null THEN 250 ELSE 0, IF cond.ndvi.mean # Null THEN 250 ELSE 0,
      IF polyArea THEN 200 ELSE 0>>

\* C20: the completeness-based confidence is the sum of the weights of the
\* fields that are present (0.15, 0.15, 0.25, 0.25, 0.20): 0 when none is, 1
\* when all are, always within [0, 1], and it is the response confidence when
\* the collaborator supplies no Confidence.
C20_CompletenessConfidence ==
    (Answered /\ geminiAnalysis.Confidence = GUndef) =>
        /\ response[1].Confidence = Num(SeqSum(PresentWeights))
        /\ 0 <= response[1].Confidence.v /\ response[1].Confidence.v <= 1000
        /\ (\A i \in 1..5 : PresentWeights[i] = 0) => response[1].Confidence = Num(0)
        /\ (\A i \in 1..5 : PresentWeights[i] # 0) => response[1].Confidence = Num(1000)

C20_Witness ==
    /\ Answered
    /\ geminiAnalysis.Confidence = GUndef
    /\ \A i \in 1..5 : PresentWeights[i] # 0
    /\ response[1].Confidence = Num(1000)

\* the shape of a payload, decided on its first entry in the order 1, 2, 3;
\* 0 when it has none of them
Shape(p) ==
    LET arr == NdviArray(p) IN
    IF Len(arr) = 0 \/ arr[1].k # "object" THEN 0
    ELSE IF arr[1].data.k = "object" /\ IsNum(arr[1].data.mean) THEN 1
    ELSE IF arr[1].data.k = "object" /\ IsNum(arr[1].data.value) THEN 2
    ELSE IF IsNum(arr[1].value) THEN 3
    ELSE 0

\* C15: the statistics are those of the first shape that matches, in the
\* order data.mean, data.value, top-level value; a lower shape is used only
\* when no higher one matches, and a payload of no shape gives five nulls
\* and no failure.
C15_ShapePriority ==
    /\ (pc # "validate" /\ soilData.k = "object" /\ Shape(ndviHistory) = 0) => ~threw
    /\ (Extracted /\ ~threw) =>
          cond.ndvi = CASE Shape(ndviHistory) = 1 -> Format1(NdviArray(ndviHistory))
                        [] Shape(ndviHistory) = 2 -> Format2(NdviArray(ndviHistory))
                        [] Shape(ndviHistory) = 3 -> Format3(NdviArray(ndviHistory))
                        [] OTHER -> NoStats

\* every entry carries a data.mean within [-1, 1]
AllMeans(arr) ==
    \A i \in 1..Len(arr) :
        arr[i].k = "object" /\ arr[i].data.k = "object" /\ InRange(arr[i].data.mean)

MeansOf(arr) == [i \in 1..Len(arr) |-> arr[i].data.mean.v]

\* C16: for a shape-1 payload of more than one entry the five statistics are
\* those of the entries' data.mean values alone, whatever else the latest
\* entry carries.
C16_AggregateOfMeans ==
    LET arr == NdviArray(ndviHistory) IN
    (Extracted /\ ~threw /\ Len(arr) > 1 /\ AllMeans(arr)) =>
        /\ cond.ndvi.mean = Num(Mean(MeansOf(arr)))
        /\ cond.ndvi.median = Num(Median(MeansOf(arr)))
        /\ cond.ndvi.min = Num(SeqMin(MeansOf(arr)))
        /\ cond.ndvi.max = Num(SeqMax(MeansOf(arr)))
        /\ cond.ndvi.std = Num(Std(MeansOf(arr), Mean(MeansOf(arr))))

\* C17: the reported NDVI mean is null or lies in [-1, 1], for every payload.
C17_MeanInRange ==
    (Extracted /\ ~threw) =>
        \/ cond.ndvi.mean = Null
        \/ cond.ndvi.mean.t = "number" /\ -100 <= cond.ndvi.mean.v /\ cond.ndvi.mean.v <= 100

\* C18: a raw moisture m with 0 <= m < 1 is stored as m * 100 and one with
\* m >= 1 is stored unchanged, as a number and as a numeric string alike.
C18_MoistureConversion ==
    (Extracted /\ ~threw /\ soilData.moisture.t \in {"number", "numstr"}) =>
        /\ (0 <= soilData.moisture.v /\ soilData.moisture.v < 1000)
              => cond.moisture = Num(soilData.moisture.v * 100)
        /\ soilData.moisture.v >= 1000 => cond.moisture = Num(soilData.moisture.v)

C18_Witness ==
    /\ pc = "polygon"
    /\ soilData.moisture = NumStr(1000)
    /\ cond.moisture = Num(1000)

\* C19: the moisture status is decided by the stored percentage alone: 'low'
\* below 20, 'excessive' above 70, 'moderate' from 20 up to 30, 'sufficient'
\* from 30 to 70, and 'unknown' for null.
C19_MoistureStatus ==
    Answered =>
        LET m == cond.moisture
            label == response[1].cc.moistureStatus
        IN /\ m = Null => label = "unknown"
           /\ m.t = "number" =>
                 /\ m.v < 20000 => label = "low"
                 /\ m.v > 70000 => label = "excessive"
                 /\ (20000 <= m.v /\ m.v < 30000) => label = "moderate"
                 /\ (30000 <= m.v /\ m.v <= 70000) => label = "sufficient"

C19_Witness ==
    /\ Answered
    /\ cond.moisture = Num(20000)
    /\ response[1].cc.moistureStatus = "moderate"

\* C21: the Recommendations of every successful response are a non-empty
\* list: the collaborator's list unchanged when that is a non-empty array, and
\* the sentinel alone when it is missing, no array or an empty array.
C21_RecommendationsNonEmpty ==
    Answered =>
        LET r == geminiAnalysis.Recommendations
            out == response[1].Recommendations
        IN /\ Len(out) > 0
           /\ (r.t = "array" /\ r.items # <<>>) => out = r.items
           /\ (r.t # "array" \/ r.items = <<>>) => out = <<"No recommendations available">>

C21_Witness ==
    /\ Answered
    /\ geminiAnalysis.Recommendations = RArray(<<>>)
    /\ response[1].Recommendations = <<"No recommendations available">>

\* C22: the ring createPolygon hands to the upstream service is closed; when
\* the first and the last submitted coordinate differ it is the submitted
\* ring plus one closing point equal to the first, when they are equal it is
\* the submitted ring, and closing it again changes nothing.
C22_ClosedRing ==
    \A k \in 1..Len(hsent) :
        LET submitted == properCoords(hreq.coordinates.pts)
            ring == hsent[k]
        IN /\ ring[1] = ring[Len(ring)]
           /\ hreq.coordinates.pts[1] # hreq.coordinates.pts[Len(submitted)]
                 => ring = Append(submitted, submitted[1])
           /\ hreq.coordinates.pts[1] = hreq.coordinates.pts[Len(submitted)]
                 => ring = submitted
           /\ closeRing(ring) = ring

C22_Witness ==
    /\ Len(hsent) = 1
    /\ Len(hreq.coordinates.pts) = 3
    /\ hreq.coordinates.pts[1] # hreq.coordinates.pts[3]
    /\ Len(hsent[1]) = 4
    /\ hres = <<[status |-> 200, body |-> "polyid"]>>

\* C23: the primary model is asked first.  After a not-found error of the
\* primary the models of the documented list other than the primary are
\* asked in the documented order, each one only after the ones before it
\* have failed; the first one that answers ends the search, and failure is
\* returned only when all of them have been asked.  After any other error
\* of the primary no other model is asked.
DocumentedOrder ==
    << "gemini-2.5-flash", "gemini-2.0-flash-exp", "gemini-1.5-flash", "gemini-1.5-pro",
       "gemini-1.5-flash-latest", "gemini-1.5-pro-latest", "gemini-pro" >>

C23_FallbackInOrder ==
    tried # <<>> =>
        LET primary == tried[1]
            expected == SelectSeq(DocumentedOrder, LAMBDA m : m # primary)
            asked == Tail(tried)
        IN /\ Len(asked) <= Len(expected)
           /\ asked = SubSeq(expected, 1, Len(asked))
           /\ \A i \in 1..(Len(tried) - 1) : tried[i] \notin available
           /\ (primary \notin available /\ ~apiError.notFound) => asked = <<>>
           /\ (gpc = "done" /\ primary \notin available /\ ~apiError.notFound)
                 => returned = "null"
           /\ (gpc = "done" /\ primary \notin available /\ apiError.notFound)
                 => \/ success /\ tried[Len(tried)] \in available
                    \/ ~success /\ returned = "null" /\ asked = expected
           /\ (gpc = "done" /\ ~success) => returned = "null"

C23_Witness ==
    /\ gpc = "done"
    /\ tried = <<"gemini-1.5-pro", "gemini-2.5-flash", "gemini-2.0-flash-exp",
                 "gemini-1.5-flash", "gemini-1.5-flash-latest">>
    /\ success /\ returned = "result"

\* C24: calculateDistance is symmetric and zero on identical points: for the
\* centre and all sampled points a and b, d(a, b) = d(b, a) and d(a, a) = 0.
Sampled == {randomPoints[i] : i \in 1..Len(randomPoints)} \cup {currentCenter}

C24_DistanceSymmetric ==
    \A a \in Sampled : \A b \in Sampled :
        (~a.nan /\ ~b.nan) =>
            /\ calculateDistance(a, b) = calculateDistance(b, a)
            /\ calculateDistance(a, a) = 0

C24_Witness ==
    \E i \in 1..Len(randomPoints) : \E j \in 1..Len(randomPoints) :
        /\ randomPoints[i].lat # randomPoints[j].lat
        /\ randomPoints[i].lng # randomPoints[j].lng
        /\ CosMilli(randomPoints[i].lat) # CosMilli(randomPoints[j].lat)
        /\ calculateDistance(randomPoints[i], randomPoints[j]) > 0
        /\ calculateDistance(randomPoints[i], randomPoints[j])
             = calculateDistance(randomPoints[j], randomPoints[i])

\* C25: a response the window loop accepts as usable has at least one entry
\* with a non-null numeric data.mean, data.value, value or mean.
Numeric(x) == x.t = "number"

CarriesNumeric(p) ==
    \E i \in 1..Len(p.items) :
        LET item == p.items[i]
        IN /\ item.k = "object"
           /\ \/ item.data.k = "object" /\ (Numeric(item.data.mean) \/ Numeric(item.data.value))
              \/ Numeric(item.value)
              \/ Numeric(item.mean)

C25_UsableIsNumeric ==
    (queryLog # <<>> /\ LastQuery.res = "usable") => CarriesNumeric(ndviHistory)

\* C26: a point accepted before the attempt limit of its slot is at least
\* min(5 km, 10% of the radius) away from every point accepted for an earlier
\* slot; a point that is closer to an earlier one was accepted at the limit.
C26_AcceptedApart ==
    \A i \in 1..Len(randomPoints) : \A j \in 1..(i - 1) :
        calculateDistance(randomPoints[j], randomPoints[i]) < MinOf(5000, radiusKm * 100)
            => atLimit[i]

C26_Witness ==
    /\ Len(randomPoints) >= 3
    /\ ~atLimit[2]
    /\ calculateDistance(randomPoints[1], randomPoints[2]) >= MinOf(5000, radiusKm * 100)
    /\ atLimit[3]
    /\ \E j \in 1..2 :
          calculateDistance(randomPoints[j], randomPoints[3]) < MinOf(5000, radiusKm * 100)

\* C27: a request handled by getSoilData, createPolygon or getPolygonData never
\* receives two responses, and when its handling has ended it has received
\* exactly one, also when the upstream fetch or the parsing of its body threw.
C27_ExactlyOneResponse ==
    /\ Len(hres) <= 1
    /\ hpc = "done" => Len(hres) = 1

\* steps a callback has behind it
CallProgress(c) == CASE c = "analyze" -> 1 [] c = "settled" -> 2 [] OTHER -> 0

\* candidates drawn and collaborator calls settled in the current run
RunMeasure ==
    Measure + CallProgress(callpc[1]) + CallProgress(callpc[2]) + CallProgress(callpc[3])
            + CallProgress(callpc[4]) + (IF cpc = "done" THEN 1 ELSE 0)

\* C28: a run of loadComparisonAreas ends, provided every collaborator call
\* settles: each of its steps raises a bounded measure and a step is at hand
\* until it has ended.  It ends with isLoading false and either an error and
\* no areas, or no error and between 1 and 4 areas.  While it is in progress
\* isLoading is true, so the search button is disabled and no step starts a
\* second run.
C28_RunEnds ==
    [][/\ cpc' = "done" =>
             /\ ~isLoading'
             /\ \/ error' # NoError /\ comparisonAreas' = <<>>
                \/ /\ error' = NoError
                   /\ Len(comparisonAreas') >= 1
                   /\ Len(comparisonAreas') <= numLocations
       /\ cpc \in {"sampling", "calls"} =>
             /\ isLoading
             /\ ~(cpc' = "sampling" /\ randomPoints' = <<>> /\ attempts' = 0)
             /\ RunMeasure' > RunMeasure
             /\ RunMeasure' <= numLocations * MaxAttempts + 2 * numLocations + 1
       /\ (cpc = "sampling" => rng # {} /\ attempts < MaxAttempts)'
       /\ (cpc = "calls" =>
             \A i \in 1..numLocations : callpc[i] \in {"create", "analyze", "settled"})']_vars

C28_Witness ==
    /\ cpc = "done"
    /\ ~isLoading
    /\ error = NoError
    /\ Len(comparisonAreas) = 2
    /\ callFail[1] = "create" /\ callFail[3] = "analyze"

\* C29: when the soil fetch fails (non-OK status or throw) the request ends
\* at once with an error response, no window of the vegetation source has
\* been queried and the scoring collaborator is not called.  Soil data and
\* NDVI history supplied in the body stay as they are and their source is
\* not queried.
C29_SoilFailureEnds ==
    [][/\ (pc = "soil" /\ pc' = "done") =>
             /\ soilQueried'
             /\ Len(response') = 1
             /\ response'[1].status >= 400
             /\ queryLog' = <<>>
             /\ geminiCalls' = 0 /\ geminiResult' = "none"
       /\ pc = "done" => UNCHANGED <<response, queryLog, geminiCalls>>
       /\ (soilData # SoilNone /\ ~soilQueried) => (soilData' = soilData /\ ~soilQueried')
       /\ (ndviHistory # NdviNone /\ queryLog = <<>>) =>
             (ndviHistory' = ndviHistory /\ queryLog' = <<>>)]_vars

C29_Witness ==
    /\ pc = "done"
    /\ soilQueried /\ soilData = SoilNone
    /\ ndviHistory = NdviNone /\ queryLog = <<>>
    /\ geminiCalls = 0
    /\ response = <<Err(404)>>

\* C30: one mount of the analysis page issues at most one polygon-creation
\* request, however often the initialization effect runs, and the effect
\* takes over the stored polygon id, creating nothing, only when a polygon id
\* is stored and the stored coordinate hash equals the hash of the stored
\* shape's coordinates.
C30_OneCreation ==
    [][/\ Len(created') <= 1
       /\ reusedPolyid' # "none" => created' = <<>>
       /\ reusedPolyid' # reusedPolyid =>
             /\ storage.polyid # "none"
             /\ reusedPolyid' = storage.polyid
             /\ storage.shapeData.k = "shape"
             /\ storage.coordsHash = coordsHash(storage.shapeData.coordinates)]_vars

C30_Witness ==
    /\ Len(created) = 1
    /\ settledRequests = 1
    /\ effectRuns = 4
    /\ ~strictDue /\ effectDep = isCreatingPolygon
    /\ storage.polyid = "new-id"
====
